---- MODULE Spec2Model ----
(***************************************************************************)
(* A model of the request routes of bm-branch-server.                      *)
(*                                                                         *)
(* The repository holds two deployments of the same REST API over one      *)
(* MySQL schema: src/server.js (a long-running express server, no          *)
(* middleware in front of its routes) and src/api/index.js (the serverless *)
(* build, every request route behind authenticateToken).  A route of the   *)
(* model takes the deployment as the parameter v ("server" or "api") and   *)
(* follows that file's handler.                                            *)
(*                                                                         *)
(* In Spec a handler is one action: its queries run in the order of the     *)
(* source and the store is assumed to answer them (no connection failure). *)
(* In SpecSteps a handler runs one query per step, other handlers run in   *)
(* between, and a query may fail.  SpecAuth does the same for the register *)
(* and login routes, and SpecDb follows executeQuery await by await.       *)
(***************************************************************************)
EXTENDS Integers, Sequences, FiniteSets, TLC

VARIABLES
    requests,   \* the requests table: row i has id i (AUTO_INCREMENT, no DELETE route)
    branches,   \* the ids of the rows of the branches table
    req,        \* the HTTP request handled last
    resp,       \* the response it was given
    pre,        \* the requests and branches tables as they were before that request
    calls,      \* the handlers in flight, query by query: position, locals, response
    teams,      \* the teams table, as POST /api/teams fills it
    team_members,   \* the team_members table: (team_id, staff_id) pairs
    registered, \* the rows POST /api/auth/register has added to the branches table
    connections,    \* the connections executeQuery has opened: ended or not
    sos         \* the sos table: rows the field app has raised

vars == <<requests, branches, req, resp, pre, calls, teams, team_members, registered, connections, sos>>

\* What the handlers that run query by query add to the state.
stepVars == <<calls, teams, team_members, registered, connections, sos>>

----------------------------------------------------------------------------
(* Bounds of the model.                                                    *)

MaxRequests == 2
Today == 40

----------------------------------------------------------------------------
(* JavaScript / JSON values, tagged with their type.                       *)

Undefined == [k |-> "undefined"]
Null == [k |-> "null"]
N(n) == [k |-> "number", n |-> n]
S(s) == [k |-> "string", s |-> s]
Dt(d, h) == [k |-> "datetime", day |-> d, hour |-> h]

\* JavaScript truthiness: what `if (x)` and `!x` test.
Truthy(v) ==
    CASE v.k = "undefined" -> FALSE
      [] v.k = "null" -> FALSE
      [] v.k = "number" -> v.n # 0
      [] v.k = "string" -> v.s # ""
      [] OTHER -> TRUE

\* a || b
Or(a, b) == IF Truthy(a) THEN a ELSE b

\* obj.key of a parsed JSON body or query: undefined when the key is absent.
Get(obj, key) == IF key \in DOMAIN obj THEN obj[key] ELSE Undefined

\* req.user?.key
UserField(user, key) == IF user.k = "undefined" THEN Undefined ELSE Get(user, key)

----------------------------------------------------------------------------
(* MySQL's conversions.                                                    *)

\* A string used as a number: its leading digits, 0 when it has none.
StrToNum(s) ==
    CASE s = "0" -> 0
      [] s = "1" -> 1
      [] s = "2" -> 2
      [] s = "3" -> 3
      [] s = "9" -> 9
      [] s = "2024" -> 2024
      [] OTHER -> 0

\* column = ? for a bound parameter: NULL equals nothing, a number column
\* compared with a string compares numbers.
SqlEq(col, param) ==
    CASE col.k = "null" \/ param.k = "null" -> FALSE
      [] col.k = "number" /\ param.k = "number" -> col.n = param.n
      [] col.k = "number" /\ param.k = "string" -> col.n = StrToNum(param.s)
      [] col.k = "string" /\ param.k = "string" -> col.s = param.s
      [] col.k = "string" /\ param.k = "number" -> StrToNum(col.s) = param.n
      [] OTHER -> FALSE

\* The value an INT column holds after a parameter is written to it.
SqlInt(v) ==
    CASE v.k = "string" -> N(StrToNum(v.s))
      [] OTHER -> v

IntColumns == {"branch_id", "service_type_id", "my_status", "team_id", "staff_id"}

ColumnValue(col, v) == IF col \in IntColumns THEN SqlInt(v) ELSE v

\* DATE(pickup_date)
DateOf(v) == IF v.k = "datetime" THEN [k |-> "date", day |-> v.day] ELSE Null

----------------------------------------------------------------------------
(* The tables the request routes read but do not write.                    *)

\* branches: id -> row.  Branch 3 is the head office, with the elevated role.
BranchRows ==
    [b \in {1, 2, 3} |->
        CASE b = 1 -> [id |-> 1, name |-> S("north"), role |-> S("branch"), client_id |-> N(1)]
          [] b = 2 -> [id |-> 2, name |-> S("south"), role |-> S("branch"), client_id |-> N(2)]
          [] b = 3 -> [id |-> 3, name |-> S("hq"), role |-> S("admin"), client_id |-> N(1)]]

\* service_types: id -> row.
ServiceTypeRows == [s \in {1} |-> [id |-> s, name |-> S("cash pickup")]]

ServiceTypes == DOMAIN ServiceTypeRows

\* clients: id -> row.
ClientRows ==
    [c \in {1, 2} |->
        CASE c = 1 -> [id |-> 1, name |-> S("acme")]
          [] c = 2 -> [id |-> 2, name |-> S("zenith")]]

\* teams: id -> row.  Team 2 has no crew commander; no team has id 3.
TeamRows ==
    [t \in {1, 2} |->
        CASE t = 1 -> [id |-> 1, crew_commander_id |-> N(7)]
          [] t = 2 -> [id |-> 2, crew_commander_id |-> Null]]

\* sos: the rows the guards' app has raised (no route of the server inserts
\* one); row i has id i.
SosRows ==
    <<[id |-> N(1), status |-> S("pending"), comment |-> Null],
      [id |-> N(2), status |-> S("in_progress"), comment |-> S("on site")]>>

\* SELECT name FROM branches WHERE id = ?
SelectBranch(brs, id) == {b \in brs : SqlEq(N(b), id)}

\* SELECT id FROM service_types WHERE id = ?
SelectServiceType(id) == {s \in ServiceTypes : SqlEq(N(s), id)}

\* SELECT crew_commander_id FROM teams WHERE id = ?
SelectTeam(id) == {t \in DOMAIN TeamRows : SqlEq(N(t), id)}

----------------------------------------------------------------------------
(* The auth gate.                                                          *)

JWT_SECRET == "your-secret-key"

\* jwt.sign at login: the principal a branch's token carries.
LoginPayload(b) ==
    [k |-> "object", branchId |-> N(BranchRows[b].id), name |-> BranchRows[b].name,
     role |-> BranchRows[b].role, clientId |-> BranchRows[b].client_id]

Jwt(payload, key, exp) == [k |-> "jwt", payload |-> payload, key |-> key, exp |-> exp]
Word(w) == [k |-> "word", w |-> w]

NoHeader == [present |-> FALSE, parts |-> <<>>]
Header(parts) == [present |-> TRUE, parts |-> parts]

\* jwt.verify(token, secret): the error, or the payload the token was signed with.
JwtVerify(token) ==
    IF token.k = "jwt" /\ token.key = JWT_SECRET /\ token.exp > Today
    THEN [err |-> FALSE, user |-> token.payload]
    ELSE [err |-> TRUE, user |-> Undefined]

\* authHeader && authHeader.split(' ')[1]
HeaderToken(header) ==
    IF header.present /\ Len(header.parts) >= 2 THEN header.parts[2] ELSE Undefined

TokenTruthy(token) ==
    CASE token.k = "undefined" -> FALSE
      [] token.k = "word" -> token.w # ""
      [] OTHER -> TRUE

\* A gate that reads the token's payload without verifying it (jwt.decode).
authenticateToken_Decode(header) ==
    LET token == HeaderToken(header) IN
    IF ~TokenTruthy(token) THEN [status |-> 401, user |-> Undefined]
    ELSE [status |-> 0, user |-> IF token.k = "jwt" THEN token.payload ELSE Undefined]

\* authenticateToken: status 0 stands for next(), with req.user attached.
authenticateToken(header) ==
    LET token == HeaderToken(header) IN
    IF ~TokenTruthy(token) THEN [status |-> 401, user |-> Undefined]
    ELSE LET v == JwtVerify(token) IN
         IF v.err THEN [status |-> 403, user |-> Undefined]
         ELSE [status |-> 0, user |-> v.user]

\* The gate in front of a route: src/server.js mounts its routes bare, the
\* serverless builds put authenticateToken in front of each.
Gate(v, header) ==
    IF v = "server" THEN [status |-> 0, user |-> Undefined] ELSE authenticateToken(header)

----------------------------------------------------------------------------
(* The field mapper.                                                       *)

\* A mapper that spreads the row under the listed fields ({...request, id: ...}).
mapRequestFields_Spread(request) ==
    LET column == [id |-> "id", userId |-> "user_id", userName |-> "user_name",
                   serviceTypeId |-> "service_type_id",
                   serviceTypeName |-> "service_type_name",
                   pickupLocation |-> "pickup_location",
                   deliveryLocation |-> "delivery_location",
                   pickupDate |-> "pickup_date", description |-> "description",
                   priority |-> "priority", status |-> "status",
                   myStatus |-> "my_status", branchId |-> "branch_id",
                   branchName |-> "branch_name", clientName |-> "client_name",
                   price |-> "price", latitude |-> "latitude",
                   longitude |-> "longitude", team_id |-> "team_id",
                   createdAt |-> "created_at", updatedAt |-> "updated_at"]
    IN [f \in DOMAIN column |-> Get(request, column[f])] @@ request

mapRequestFields(request) ==
    [id |-> Get(request, "id"),
     userId |-> Get(request, "user_id"),
     userName |-> Get(request, "user_name"),
     serviceTypeId |-> Get(request, "service_type_id"),
     serviceTypeName |-> Get(request, "service_type_name"),
     pickupLocation |-> Get(request, "pickup_location"),
     deliveryLocation |-> Get(request, "delivery_location"),
     pickupDate |-> Get(request, "pickup_date"),
     description |-> Get(request, "description"),
     priority |-> Get(request, "priority"),
     status |-> Get(request, "status"),
     myStatus |-> Get(request, "my_status"),
     branchId |-> Get(request, "branch_id"),
     branchName |-> Get(request, "branch_name"),
     clientName |-> Get(request, "client_name"),
     price |-> Get(request, "price"),
     latitude |-> Get(request, "latitude"),
     longitude |-> Get(request, "longitude"),
     team_id |-> Get(request, "team_id"),
     createdAt |-> Get(request, "created_at"),
     updatedAt |-> Get(request, "updated_at")]

----------------------------------------------------------------------------
(* Responses.                                                              *)

NoRecord == [k |-> "none"]

Response(status, message, record, rows, ran, user) ==
    [status |-> status, message |-> message, record |-> record, rows |-> rows,
     ran |-> ran, user |-> user]

\* The gate's own answer: the handler is not called.
Rejected(auth) ==
    Response(auth.status,
             IF auth.status = 401 THEN "Access token required" ELSE "Invalid or expired token",
             NoRecord, <<>>, FALSE, Undefined)

Request(route, v, header, id, query, body) ==
    [route |-> route, v |-> v, header |-> header, id |-> id, query |-> query, body |-> body]

Snapshot == [requests |-> requests, branches |-> branches]

NoRequest == Request("", "server", NoHeader, Undefined, <<>>, <<>>)
NoResponse == Response(0, "", NoRecord, <<>>, FALSE, Undefined)

\* The client sends one request at a time: no request is being answered.
Idle == req = NoRequest

\* The response has gone out; the client may send its next request.
Complete ==
    /\ ~Idle
    /\ req' = NoRequest
    /\ resp' = NoResponse
    /\ pre' = Snapshot
    /\ UNCHANGED <<requests, branches>>
    /\ UNCHANGED stepVars

----------------------------------------------------------------------------
(* POST /api/requests.                                                     *)

\* A resolution that prefers the body's branchId to the principal's.
CreateBranchId_BodyFirst(user, body) ==
    LET fromBody == Get(body, "branchId") IN
    IF ~Truthy(fromBody) THEN UserField(user, "branchId") ELSE fromBody

\* let branchId = req.user?.branchId; if (!branchId) branchId = req.body.branchId
CreateBranchId(user, body) ==
    LET fromToken == UserField(user, "branchId") IN
    IF ~Truthy(fromToken) THEN Get(body, "branchId") ELSE fromToken

\* branchName: the principal's, else the body's, else the name of the branch row.
CreateBranchName(user, body, brs) ==
    LET fromToken == UserField(user, "name")
        given == IF ~Truthy(fromToken) THEN Get(body, "branchName") ELSE fromToken
        branchId == CreateBranchId(user, body)
        branchRows == SelectBranch(brs, branchId)
    IN IF ~Truthy(given) /\ Truthy(branchId) /\ branchRows # {}
       THEN BranchRows[CHOOSE b \in branchRows : TRUE].name
       ELSE given

\* const { ..., myStatus = 0, ... } = req.body: the default replaces undefined only.
CreateMyStatus(body) ==
    IF Get(body, "myStatus").k = "undefined" THEN N(0) ELSE Get(body, "myStatus")

\* A validation that forgets pickupDate.
MissingRequired_NoPickupDate(user, body, brs) ==
    \/ ~Truthy(CreateBranchId(user, body))
    \/ ~Truthy(CreateBranchName(user, body, brs))
    \/ ~Truthy(Get(body, "serviceTypeId"))
    \/ ~Truthy(Get(body, "pickupLocation"))
    \/ ~Truthy(Get(body, "deliveryLocation"))
    \/ ~Truthy(Get(body, "price"))

\* The validation of the required fields.
MissingRequired(user, body, brs) ==
    \/ ~Truthy(CreateBranchId(user, body))
    \/ ~Truthy(CreateBranchName(user, body, brs))
    \/ ~Truthy(Get(body, "serviceTypeId"))
    \/ ~Truthy(Get(body, "pickupLocation"))
    \/ ~Truthy(Get(body, "deliveryLocation"))
    \/ ~Truthy(Get(body, "pickupDate"))
    \/ ~Truthy(Get(body, "price"))

\* An insert that takes the status from the body when it has one.
InsertStatus_FromBody(body) == Or(Get(body, "status"), S("pending"))

\* The status every inserted row is given.
InsertStatus(body) == S("pending")

\* The row INSERT INTO requests stores; created_at is the clock's reading.
InsertedRow(id, user, body, createdAt) ==
    [id |-> N(id),
     branch_id |-> ColumnValue("branch_id", CreateBranchId(user, body)),
     branch_name |-> Null,
     service_type_id |-> ColumnValue("service_type_id", Get(body, "serviceTypeId")),
     pickup_location |-> Get(body, "pickupLocation"),
     delivery_location |-> Get(body, "deliveryLocation"),
     pickup_date |-> Get(body, "pickupDate"),
     description |-> Or(Get(body, "description"), Null),
     priority |-> Or(Get(body, "priority"), S("medium")),
     status |-> InsertStatus(body),
     my_status |-> ColumnValue("my_status", CreateMyStatus(body)),
     price |-> Get(body, "price"),
     latitude |-> Or(Get(body, "latitude"), Null),
     longitude |-> Or(Get(body, "longitude"), Null),
     team_id |-> Null,
     staff_id |-> Null,
     created_at |-> N(createdAt)]

\* CURRENT_TIMESTAMP at an insert, in seconds since the first insert: the clock
\* never runs backwards, and two inserts may fall in the same second.
Clock(reqs, tick) == IF reqs = <<>> THEN 1 ELSE reqs[Len(reqs)].created_at.n + tick

\* SELECT * FROM requests WHERE id = ?
SelectRequest(reqs, id) == {i \in 1..Len(reqs) : SqlEq(reqs[i].id, id)}

\* The lookups without the one on branches.
InvalidReference_ServiceOnly(user, body, brs) ==
    IF SelectServiceType(Get(body, "serviceTypeId")) = {} THEN "Invalid service type" ELSE ""

\* The two lookups that follow the validation: the message of the 400, or "".
InvalidReference(user, body, brs) ==
    IF SelectServiceType(Get(body, "serviceTypeId")) = {} THEN "Invalid service type"
    ELSE IF SelectBranch(brs, CreateBranchId(user, body)) = {} THEN "Invalid branch"
    ELSE ""

\* The handler, from the resolution of the branch to the 201.
createRequest(user, body, reqs, brs, tick) ==
    IF MissingRequired(user, body, brs)
    THEN [requests |-> reqs,
          resp |-> Response(400, "Missing required fields", NoRecord, <<>>, TRUE, user)]
    ELSE IF InvalidReference(user, body, brs) # ""
    THEN [requests |-> reqs,
          resp |-> Response(400, InvalidReference(user, body, brs), NoRecord, <<>>, TRUE, user)]
    ELSE LET insertId == Len(reqs) + 1
             stored == Append(reqs, InsertedRow(insertId, user, body, Clock(reqs, tick)))
         IN [requests |-> stored,
             resp |-> Response(201, "", mapRequestFields(stored[insertId]), <<>>, TRUE, user)]

CreateRequest(v, header, body, tick) ==
    LET auth == Gate(v, header)
        out == IF auth.status # 0
               THEN [requests |-> requests, resp |-> Rejected(auth)]
               ELSE createRequest(auth.user, body, requests, branches, tick)
    IN /\ Idle
       /\ Len(out.requests) <= MaxRequests
       /\ requests' = out.requests
       /\ resp' = out.resp
       /\ req' = Request("POST /api/requests", v, header, Undefined, <<>>, body)
       /\ pre' = Snapshot
       /\ UNCHANGED branches
       /\ UNCHANGED stepVars

----------------------------------------------------------------------------
(* PATCH /api/requests/:id.                                                *)

\* The storage column each accepted body field is written to.
PatchFieldMap(v) ==
    IF v = "server"
    THEN [branch_name |-> "branchName", service_type_id |-> "serviceTypeId",
          pickup_location |-> "pickupLocation", delivery_location |-> "deliveryLocation",
          pickup_date |-> "pickupDate", description |-> "description",
          priority |-> "priority", status |-> "status", my_status |-> "myStatus",
          team_id |-> "team_id", latitude |-> "latitude", longitude |-> "longitude"]
    ELSE [status |-> "status", my_status |-> "my_status", priority |-> "priority",
          description |-> "description", team_id |-> "team_id", staff_id |-> "staff_id"]

\* A SET clause that keeps every mapped column, undefined ones included.
GivenColumns_All(v, updates) == DOMAIN PatchFieldMap(v)

\* The columns the body sets: the mapped fields that are not undefined.
GivenColumns(v, updates) ==
    {c \in DOMAIN PatchFieldMap(v) : Get(updates, PatchFieldMap(v)[c]).k # "undefined"}

\* A lookup that clears staff_id when the team has no commander to give.
TeamCommander_Clear(v, updates) ==
    LET teamRows == SelectTeam(Get(updates, "team_id")) IN
    IF v = "server" /\ Truthy(Get(updates, "team_id"))
    THEN IF teamRows # {} /\ Truthy(TeamRows[CHOOSE t \in teamRows : TRUE].crew_commander_id)
         THEN TeamRows[CHOOSE t \in teamRows : TRUE].crew_commander_id
         ELSE Null
    ELSE Undefined

\* src/server.js: the commander of the team the body names, when it has one.
TeamCommander(v, updates) ==
    LET teamRows == SelectTeam(Get(updates, "team_id")) IN
    IF v = "server" /\ Truthy(Get(updates, "team_id")) /\ teamRows # {}
       /\ Truthy(TeamRows[CHOOSE t \in teamRows : TRUE].crew_commander_id)
    THEN TeamRows[CHOOSE t \in teamRows : TRUE].crew_commander_id
    ELSE Undefined

\* dbUpdates once the undefined values are removed.
DbUpdates(v, updates) ==
    LET given == [c \in GivenColumns(v, updates) |-> Get(updates, PatchFieldMap(v)[c])]
        commander == TeamCommander(v, updates)
    IN IF commander.k # "undefined" THEN ("staff_id" :> commander) @@ given ELSE given

\* An update that treats completed as final: the status of a completed row stays.
UpdateRequests_Final(reqs, id, dbUpdates) ==
    [i \in 1..Len(reqs) |->
        IF SqlEq(reqs[i].id, id)
        THEN [c \in DOMAIN reqs[i] |->
                IF c \in DOMAIN dbUpdates /\ ~(c = "status" /\ reqs[i].status = S("completed"))
                THEN ColumnValue(c, dbUpdates[c]) ELSE reqs[i][c]]
        ELSE reqs[i]]

\* An UPDATE that writes the whole patchable part of the row: NULL for the
\* columns the body lacks.
UpdateRequests_WholeRow(reqs, id, dbUpdates) ==
    [i \in 1..Len(reqs) |->
        IF SqlEq(reqs[i].id, id)
        THEN [c \in DOMAIN reqs[i] |->
                IF c \in DOMAIN dbUpdates THEN ColumnValue(c, dbUpdates[c])
                ELSE IF c \in {"status", "priority", "team_id", "staff_id"} THEN Null
                ELSE reqs[i][c]]
        ELSE reqs[i]]

\* UPDATE requests SET <dbUpdates> WHERE id = ?
UpdateRequests(reqs, id, dbUpdates) ==
    [i \in 1..Len(reqs) |->
        IF SqlEq(reqs[i].id, id)
        THEN [c \in DOMAIN reqs[i] |->
                IF c \in DOMAIN dbUpdates THEN ColumnValue(c, dbUpdates[c]) ELSE reqs[i][c]]
        ELSE reqs[i]]

\* r.* LEFT JOIN branches b, clients c, service_types st: a missing match gives NULL.
JoinedRow(row, brs) ==
    LET bs == SelectBranch(brs, row.branch_id)
        b == IF bs = {} THEN 0 ELSE CHOOSE x \in bs : TRUE
        cs == IF b = 0 THEN {} ELSE {c \in DOMAIN ClientRows : SqlEq(N(c), BranchRows[b].client_id)}
        sts == SelectServiceType(row.service_type_id)
    IN ("branch_name" :> (IF b = 0 THEN Null ELSE BranchRows[b].name))
       @@ ("client_name" :> (IF cs = {} THEN Null ELSE ClientRows[CHOOSE c \in cs : TRUE].name))
       @@ ("service_type_name" :>
             (IF sts = {} THEN Null ELSE ServiceTypeRows[CHOOSE x \in sts : TRUE].name))
       @@ row

\* The row the handler reads back: src/api/index.js joins the names in.
ReadBack(v, row, brs) == IF v = "server" THEN row ELSE JoinedRow(row, brs)

\* The handler: an empty SET clause is a statement MySQL rejects, which
\* src/server.js answers from its catch block and src/api/index.js forestalls.
patchRequest(v, user, id, updates, reqs, brs) ==
    LET dbUpdates == DbUpdates(v, updates) IN
    IF DOMAIN dbUpdates = {}
    THEN [requests |-> reqs,
          resp |-> IF v = "server"
                   THEN Response(500, "Internal server error", NoRecord, <<>>, TRUE, user)
                   ELSE Response(400, "No valid fields to update", NoRecord, <<>>, TRUE, user)]
    ELSE LET stored == UpdateRequests(reqs, id, dbUpdates)
             found == SelectRequest(stored, id)
         IN [requests |-> stored,
             resp |-> IF found = {}
                      THEN Response(404, "Request not found", NoRecord, <<>>, TRUE, user)
                      ELSE Response(200, "",
                                    mapRequestFields(ReadBack(v, stored[CHOOSE i \in found : TRUE], brs)),
                                    <<>>, TRUE, user)]

PatchRequest(v, header, id, updates) ==
    LET auth == Gate(v, header)
        out == IF auth.status # 0
               THEN [requests |-> requests, resp |-> Rejected(auth)]
               ELSE patchRequest(v, auth.user, id, updates, requests, branches)
    IN /\ Idle
       /\ requests' = out.requests
       /\ resp' = out.resp
       /\ req' = Request("PATCH /api/requests/:id", v, header, id, <<>>, updates)
       /\ pre' = Snapshot
       /\ UNCHANGED branches
       /\ UNCHANGED stepVars

----------------------------------------------------------------------------
(* GET /api/requests.                                                      *)

\* DATE(r.pickup_date) = ?
SqlDateEq(col, param) ==
    DateOf(col).k = "date" /\ param.k = "date" /\ DateOf(col).day = param.day

\* The filters of the WHERE clause: status, branchId and pickupDate are pushed
\* when truthy, myStatus whenever it is not undefined.
StatusFilter(query, row) ==
    Truthy(Get(query, "status")) => SqlEq(row.status, Get(query, "status"))

\* A myStatus filter pushed on truthiness, like its three neighbours.
MyStatusFilter_Truthy(query, row) ==
    Truthy(Get(query, "myStatus")) => SqlEq(row.my_status, Get(query, "myStatus"))

MyStatusFilter(query, row) ==
    Get(query, "myStatus").k # "undefined" => SqlEq(row.my_status, Get(query, "myStatus"))

BranchFilter(query, row) ==
    Truthy(Get(query, "branchId")) => SqlEq(row.branch_id, Get(query, "branchId"))

PickupDateFilter(query, row) ==
    Truthy(Get(query, "pickupDate")) => SqlDateEq(row.pickup_date, Get(query, "pickupDate"))

\* A WHERE clause whose filters are joined with OR.
ListMatches_Or(query, reqs) ==
    {i \in 1..Len(reqs) :
        \/ /\ ~Truthy(Get(query, "status"))
           /\ Get(query, "myStatus").k = "undefined"
           /\ ~Truthy(Get(query, "branchId"))
           /\ ~Truthy(Get(query, "pickupDate"))
        \/ Truthy(Get(query, "status")) /\ SqlEq(reqs[i].status, Get(query, "status"))
        \/ /\ Get(query, "myStatus").k # "undefined"
           /\ SqlEq(reqs[i].my_status, Get(query, "myStatus"))
        \/ Truthy(Get(query, "branchId")) /\ SqlEq(reqs[i].branch_id, Get(query, "branchId"))
        \/ /\ Truthy(Get(query, "pickupDate"))
           /\ SqlDateEq(reqs[i].pickup_date, Get(query, "pickupDate"))}

\* The ids of the rows the query selects.
ListMatches(query, reqs) ==
    {i \in 1..Len(reqs) :
        /\ StatusFilter(query, reqs[i])
        /\ MyStatusFilter(query, reqs[i])
        /\ BranchFilter(query, reqs[i])
        /\ PickupDateFilter(query, reqs[i])}

\* ORDER BY r.created_at DESC: every order of the ids that puts no row before
\* a newer one (rows of the same second come in either order).
CreatedDesc(ids, reqs) ==
    {o \in [1..Cardinality(ids) -> ids] :
        /\ \A a, b \in 1..Cardinality(ids) : a # b => o[a] # o[b]
        /\ \A a, b \in 1..Cardinality(ids) :
              a < b => reqs[o[a]].created_at.n >= reqs[o[b]].created_at.n}

listRequests(user, query, reqs, brs, order) ==
    Response(200, "", NoRecord,
             [a \in 1..Len(order) |-> mapRequestFields(JoinedRow(reqs[order[a]], brs))],
             TRUE, user)

ListRequests(v, header, query) ==
    LET auth == Gate(v, header) IN
    /\ Idle
    /\ \E order \in CreatedDesc(ListMatches(query, requests), requests) :
          resp' = IF auth.status # 0 THEN Rejected(auth)
                  ELSE listRequests(auth.user, query, requests, branches, order)
    /\ req' = Request("GET /api/requests", v, header, Undefined, query, <<>>)
    /\ pre' = Snapshot
    /\ UNCHANGED <<requests, branches>>
    /\ UNCHANGED stepVars

----------------------------------------------------------------------------
(* GET /api/runs/summaries.                                                *)

\* The calendar of the model: day 1 is 1 January 2024.
YearOf(day) == 2024
MonthOf(day) == IF day <= 31 THEN 1 ELSE 2

\* The window of the serverless build: pickup_date >= CURDATE() - INTERVAL 30 DAY.
SummaryWindow == 30

InWindow(row) == DateOf(row.pickup_date).k = "date" /\ DateOf(row.pickup_date).day >= Today - SummaryWindow

\* b.client_id = ? over the LEFT JOIN of the request's branch.
ClientFilter(query, row, brs) ==
    Truthy(Get(query, "clientId")) =>
        \E b \in SelectBranch(brs, row.branch_id) :
            SqlEq(BranchRows[b].client_id, Get(query, "clientId"))

YearFilter(query, row) ==
    Truthy(Get(query, "year")) =>
        /\ DateOf(row.pickup_date).k = "date"
        /\ SqlEq(N(YearOf(DateOf(row.pickup_date).day)), Get(query, "year"))

MonthFilter(query, row) ==
    Truthy(Get(query, "month")) =>
        /\ DateOf(row.pickup_date).k = "date"
        /\ SqlEq(N(MonthOf(DateOf(row.pickup_date).day)), Get(query, "month"))

\* A scope that lets every caller's branchId parameter replace the token's branch.
BranchScope_QueryWins(user, query, row) ==
    IF Truthy(Get(query, "branchId"))
    THEN SqlEq(row.branch_id, Get(query, "branchId"))
    ELSE (UserField(user, "role") # S("admin") /\ Truthy(UserField(user, "branchId")))
            => SqlEq(row.branch_id, UserField(user, "branchId"))

\* src/api/index.js: a caller who is not admin is held to the branch of the token,
\* and only an admin's branchId parameter is used.
BranchScope(user, query, row) ==
    /\ (UserField(user, "role") # S("admin") /\ Truthy(UserField(user, "branchId")))
          => SqlEq(row.branch_id, UserField(user, "branchId"))
    /\ (Truthy(Get(query, "branchId")) /\ UserField(user, "role") = S("admin"))
          => SqlEq(row.branch_id, Get(query, "branchId"))

\* The ids of the rows a summary counts.  The route of src/unnamed/part_001
\* reads no parameter and no principal: its only condition is the 30 days.
SummaryMatches(v, user, query, reqs, brs) ==
    {i \in 1..Len(reqs) :
        /\ IF v = "server" THEN SqlEq(reqs[i].my_status, N(3)) ELSE InWindow(reqs[i])
        /\ v = "server" => BranchFilter(query, reqs[i])
        /\ v = "api" => BranchScope(user, query, reqs[i])
        /\ v # "part001" =>
              /\ YearFilter(query, reqs[i])
              /\ MonthFilter(query, reqs[i])
              /\ ClientFilter(query, reqs[i], brs)}

RECURSIVE SumPrice(_, _)
SumPrice(ids, reqs) ==
    IF ids = {} THEN 0
    ELSE LET i == CHOOSE x \in ids : TRUE
             p == reqs[i].price
         IN (IF p.k = "number" THEN p.n ELSE 0) + SumPrice(ids \ {i}, reqs)

\* A completion read from the numeric progress code instead of status.
Completed_ByMyStatus(row) == SqlEq(row.my_status, N(3))

Completed(row) == SqlEq(row.status, S("completed"))

\* One row of the GROUP BY DATE(pickup_date).
SummaryRow(day, ids, reqs) ==
    LET group == {i \in ids : DateOf(reqs[i].pickup_date).day = day}
        done == {i \in group : Completed(reqs[i])}
    IN [date |-> day,
        totalRuns |-> Cardinality(group),
        totalRunsCompleted |-> Cardinality(done),
        totalAmount |-> SumPrice(group, reqs),
        totalAmountCompleted |-> SumPrice(done, reqs)]

\* An ORDER BY date without DESC.
RECURSIVE DescDays_Asc(_)
DescDays_Asc(days) ==
    IF days = {} THEN <<>>
    ELSE LET d == CHOOSE x \in days : \A y \in days : x <= y
         IN <<d>> \o DescDays_Asc(days \ {d})

RECURSIVE DescDays(_)
DescDays(days) ==
    IF days = {} THEN <<>>
    ELSE LET d == CHOOSE x \in days : \A y \in days : y <= x
         IN <<d>> \o DescDays(days \ {d})

\* GROUP BY DATE(pickup_date) ORDER BY date DESC
runSummaries(v, user, query, reqs, brs) ==
    LET ids == {i \in SummaryMatches(v, user, query, reqs, brs) :
                    DateOf(reqs[i].pickup_date).k = "date"}
        days == DescDays({DateOf(reqs[i].pickup_date).day : i \in ids})
    IN [a \in 1..Len(days) |-> SummaryRow(days[a], ids, reqs)]

RunSummaries(v, header, query) ==
    LET auth == Gate(v, header) IN
    /\ Idle
    /\ resp' = IF auth.status # 0 THEN Rejected(auth)
               ELSE Response(200, "", NoRecord,
                             runSummaries(v, auth.user, query, requests, branches),
                             TRUE, auth.user)
    /\ req' = Request("GET /api/runs/summaries", v, header, Undefined, query, <<>>)
    /\ pre' = Snapshot
    /\ UNCHANGED <<requests, branches>>
    /\ UNCHANGED stepVars

----------------------------------------------------------------------------
(* PATCH /api/requests/:id/assign-team.                                    *)

\* An assignment that writes the team and leaves the status alone.
AssignUpdates_TeamOnly(body) == [team_id |-> Get(body, "team_id")]

\* UPDATE requests SET team_id = ?, status = "assigned" WHERE id = ?
AssignUpdates(body) == [team_id |-> Get(body, "team_id"), status |-> S("assigned")]

\* The handler: mapRequestFields(updatedRequest[0]) throws when the id matched
\* no row, and the catch block answers 500.
assignTeam(user, id, body, reqs, brs) ==
    IF ~Truthy(Get(body, "team_id"))
    THEN [requests |-> reqs,
          resp |-> Response(400, "Team ID is required", NoRecord, <<>>, TRUE, user)]
    ELSE LET stored == UpdateRequests(reqs, id, AssignUpdates(body))
             found == SelectRequest(stored, id)
         IN [requests |-> stored,
             resp |-> IF found = {}
                      THEN Response(500, "Error assigning team to request", NoRecord,
                                    <<>>, TRUE, user)
                      ELSE Response(200, "",
                                    mapRequestFields(JoinedRow(stored[CHOOSE i \in found : TRUE], brs)),
                                    <<>>, TRUE, user)]

AssignTeam(v, header, id, body) ==
    LET auth == Gate(v, header)
        out == IF auth.status # 0
               THEN [requests |-> requests, resp |-> Rejected(auth)]
               ELSE assignTeam(auth.user, id, body, requests, branches)
    IN /\ Idle
       /\ requests' = out.requests
       /\ resp' = out.resp
       /\ req' = Request("PATCH /api/requests/:id/assign-team", v, header, id, <<>>, body)
       /\ pre' = Snapshot
       /\ UNCHANGED branches
       /\ UNCHANGED stepVars

----------------------------------------------------------------------------
(* DELETE /api/clients/:clientId/branches/:branchId.                       *)

\* A delete that takes the branch's requests with it (ON DELETE CASCADE).
DeleteBranch_Cascade(v, header, branchId) ==
    LET auth == Gate(v, header) IN
    /\ Idle
    /\ branches' = IF auth.status # 0 THEN branches
                   ELSE branches \ SelectBranch(branches, branchId)
    /\ requests' = IF auth.status # 0 THEN requests
                   ELSE SelectSeq(requests, LAMBDA r : ~SqlEq(r.branch_id, branchId))
    /\ resp' = IF auth.status # 0 THEN Rejected(auth)
               ELSE Response(200, "Branch deleted successfully", NoRecord, <<>>, TRUE, auth.user)
    /\ req' = Request("DELETE /api/clients/:clientId/branches/:branchId", v, header,
                      branchId, <<>>, <<>>)
    /\ pre' = Snapshot
    /\ UNCHANGED stepVars

DeleteBranch(v, header, branchId) ==
    LET auth == Gate(v, header) IN
    /\ Idle
    /\ branches' = IF auth.status # 0 THEN branches
                   ELSE branches \ SelectBranch(branches, branchId)
    /\ resp' = IF auth.status # 0 THEN Rejected(auth)
               ELSE Response(200, "Branch deleted successfully", NoRecord, <<>>, TRUE, auth.user)
    /\ req' = Request("DELETE /api/clients/:clientId/branches/:branchId", v, header,
                      branchId, <<>>, <<>>)
    /\ pre' = Snapshot
    /\ UNCHANGED requests
    /\ UNCHANGED stepVars

----------------------------------------------------------------------------
(* The requests the clients send.                                          *)

Without(obj, key) == [x \in DOMAIN obj \ {key} |-> obj[x]]
With(obj, key, value) == (key :> value) @@ obj
EmptyObject == [x \in {} |-> Undefined]

\* Authorization headers: a token issued at login, one past its 24 hours, one
\* signed with another key, a header with no token, no header.
Bearer(b) == Header(<<Word("Bearer"), Jwt(LoginPayload(b), JWT_SECRET, Today + 1)>>)
Expired == Header(<<Word("Bearer"), Jwt(LoginPayload(1), JWT_SECRET, Today)>>)
Forged == Header(<<Word("Bearer"), Jwt(LoginPayload(3), "guess", Today + 1)>>)
BearerOnly == Header(<<Word("Bearer")>>)
BadHeaders == {NoHeader, BearerOnly, Expired, Forged}

\* Create payloads.
Body1 ==
    [branchId |-> N(1), branchName |-> S("north"), serviceTypeId |-> N(1),
     pickupLocation |-> S("depot"), deliveryLocation |-> S("bank"),
     pickupDate |-> Dt(Today, 9), price |-> N(100)]

Body2 ==
    [branchId |-> N(2), serviceTypeId |-> N(1),
     pickupLocation |-> S("mall"), deliveryLocation |-> S("vault"),
     pickupDate |-> Dt(Today, 14), price |-> N(200),
     myStatus |-> N(3), status |-> S("completed")]

RequiredBodyKeys == {"serviceTypeId", "pickupLocation", "deliveryLocation", "pickupDate", "price"}

CreateBodies ==
    {Body1, Body2}
    \cup {Without(Body1, key) : key \in RequiredBodyKeys \cup {"branchId"}}
    \cup {With(Body1, key, Null) : key \in RequiredBodyKeys}
    \cup {With(Body1, "price", N(0)), With(Body1, "pickupLocation", S("")),
          With(Body1, "serviceTypeId", N(9)), With(Body1, "branchId", N(9)),
          With(Body2, "branchId", N(9))}

CreateCalls ==
    ({"server"} \X {NoHeader} \X CreateBodies)
    \cup ({"api"} \X {Bearer(1)} \X (CreateBodies \ {Body2, With(Body2, "branchId", N(9))}))
    \cup ({"api"} \X BadHeaders \X {Body1})

\* Patch payloads: the ids addressed are request 1 and an id no row has.
PatchIds == {S("1"), S("9")}

PatchBodies ==
    {[status |-> S("completed")],
     [myStatus |-> N(3)],
     [my_status |-> N(3)],
     [team_id |-> N(1)],
     [team_id |-> N(3)],
     [team_id |-> N(2), status |-> S("archived")],
     [status |-> S("pending"), price |-> N(1)],
     [price |-> N(1), branch_id |-> N(2), id |-> N(2)],
     [pickupDate |-> Dt(Today - SummaryWindow - 1, 9)],
     EmptyObject}

PatchCalls ==
    ({"server"} \X {NoHeader} \X PatchIds \X PatchBodies)
    \cup ({"api"} \X {Bearer(1)} \X PatchIds \X PatchBodies)
    \cup ({"api"} \X BadHeaders \X {S("1")} \X {[status |-> S("completed")]})

\* List queries.
Date(d) == [k |-> "date", day |-> d]

ListQueries ==
    {EmptyObject,
     [myStatus |-> S("0")],
     [myStatus |-> S("3")],
     [myStatus |-> S("")],
     [status |-> S("completed")],
     [status |-> S("")],
     [branchId |-> S("1")],
     [pickupDate |-> Date(Today)],
     [branchId |-> S(""), pickupDate |-> S("")],
     [status |-> S("pending"), myStatus |-> S("0"), branchId |-> S("1"),
      pickupDate |-> Date(Today)]}

ListCalls ==
    ({"server"} \X {NoHeader} \X ListQueries)
    \cup ({"api"} \X {Bearer(1)} \X ListQueries)
    \cup ({"api"} \X BadHeaders \X {EmptyObject})

\* Summary queries.
SummaryQueries ==
    {EmptyObject,
     [branchId |-> S("1")],
     [branchId |-> S("2")],
     [clientId |-> S("1")],
     [year |-> S("2024"), month |-> S("2")]}

SummaryCalls ==
    ({"server"} \X {NoHeader} \X SummaryQueries)
    \cup ({"api"} \X {Bearer(1), Bearer(2), Bearer(3)} \X SummaryQueries)
    \cup ({"api"} \X BadHeaders \X {EmptyObject})
    \cup ({"part001"} \X {Bearer(3)} \X {EmptyObject})

\* Assignments: a team, no team, and team 0.
AssignBodies == {[team_id |-> N(2)], EmptyObject, [team_id |-> N(0), status |-> S("completed")]}

AssignCalls ==
    ({"part001"} \X {Bearer(3)} \X PatchIds \X AssignBodies)
    \cup ({"part001"} \X BadHeaders \X {S("1")} \X {[team_id |-> N(2)]})

DeleteCalls ==
    ({"part001"} \X {Bearer(3)} \X {S("1"), S("9")})
    \cup ({"part001"} \X BadHeaders \X {S("1")})

----------------------------------------------------------------------------
(* The specification.                                                      *)

Init ==
    /\ requests = <<>>
    /\ branches = DOMAIN BranchRows
    /\ req = NoRequest
    /\ resp = NoResponse
    /\ pre = [requests |-> <<>>, branches |-> DOMAIN BranchRows]
    /\ calls = <<>>
    /\ teams = <<>>
    /\ team_members = <<>>
    /\ registered = <<>>
    /\ connections = <<>>
    /\ sos = SosRows

Next ==
    \/ \E c \in CreateCalls, tick \in {0, 1} : CreateRequest(c[1], c[2], c[3], tick)
    \/ \E c \in PatchCalls : PatchRequest(c[1], c[2], c[3], c[4])
    \/ \E c \in AssignCalls : AssignTeam(c[1], c[2], c[3], c[4])
    \/ \E c \in ListCalls : ListRequests(c[1], c[2], c[3])
    \/ \E c \in SummaryCalls : RunSummaries(c[1], c[2], c[3])
    \/ \E c \in DeleteCalls : DeleteBranch(c[1], c[2], c[3])
    \/ Complete

Spec == Init /\ [][Next]_vars

----------------------------------------------------------------------------
(* The handlers query by query.                                            *)
(*                                                                         *)
(* Every await of a handler is a step of its own: handlers of other        *)
(* requests run between two steps, and the query of a step may fail, which *)
(* throws into the handler's catch block.                                  *)

MaxCalls == 2

\* A handler invocation: pc is the query it stands before ("done" once it has
\* answered), issued the queries it has sent, n the insertId it holds, k the
\* member the loop of POST /api/teams is at.
NewCall(route, v, header, id, body) ==
    [route |-> route, v |-> v, id |-> id, body |-> body,
     user |-> Gate(v, header).user, pc |-> "start", issued |-> <<>>,
     failed |-> FALSE, responses |-> 0, resp |-> NoResponse, n |-> 0, k |-> 0]

\* res.status(...).json(...): the response goes out and the handler returns.
Send(call, response) ==
    [call EXCEPT !.pc = "done", !.responses = @ + 1, !.resp = response]

Answer(call, status, message, record) ==
    Send(call, Response(status, message, record, <<>>, TRUE, call.user))

\* await executeQuery(...) / db.query(...): the statement at pc is sent, and the
\* handler goes on to next once it has come back.
Issue(call, next) == [call EXCEPT !.issued = Append(@, <<call.pc, call.k>>), !.pc = next]

\* The message of the handler's catch block.
CatchMessage(call) ==
    CASE call.route = "POST /api/requests" -> "Error creating request"
      [] call.route = "PATCH /api/requests/:id/assign-team" -> "Error assigning team to request"
      [] call.route = "POST /api/teams" -> "Error creating team"
      [] call.route = "DELETE /api/clients/:clientId/branches/:branchId" -> "Error deleting branch"
      [] call.route = "GET /api/runs/summaries" -> "Error fetching run summaries"
      [] OTHER -> "Internal server error"

\* The expression under await threw: the catch block answers 500.
Catch(call) == Answer([call EXCEPT !.failed = TRUE], 500, CatchMessage(call), NoRecord)

\* A handler that sends a failed statement once more before it gives up.
Fail_Retry(call) ==
    IF \E i \in 1..Len(call.issued) : call.issued[i] = <<call.pc, call.k>>
    THEN Catch(Issue(call, call.pc))
    ELSE Issue(call, call.pc)

\* The statement at pc was sent and the store failed it.
Fail(call) == Catch(Issue(call, call.pc))

\* A 201 that reports the values the INSERT wrote.
CreatedRecord_Written(call, reqs) ==
    mapRequestFields(InsertedRow(call.n, call.user, call.body, reqs[call.n].created_at.n))

\* mapRequestFields(requests[0]) of the re-select by insertId.
CreatedRecord(call, reqs) ==
    mapRequestFields(reqs[CHOOSE i \in SelectRequest(reqs, N(call.n)) : TRUE])

\* From the entry of the handler to its first await.
EnterCreate(call) ==
    IF ~Truthy(Or(UserField(call.user, "name"), Get(call.body, "branchName")))
       /\ Truthy(CreateBranchId(call.user, call.body))
    THEN [call EXCEPT !.pc = "name"]
    ELSE IF MissingRequired(call.user, call.body, {})
         THEN Answer(call, 400, "Missing required fields", NoRecord)
         ELSE [call EXCEPT !.pc = "service"]

EnterPatch(call) ==
    IF call.v = "server" /\ Truthy(Get(call.body, "team_id"))
    THEN [call EXCEPT !.pc = "team"]
    ELSE IF call.v # "server" /\ DOMAIN DbUpdates(call.v, call.body) = {}
         THEN Answer(call, 400, "No valid fields to update", NoRecord)
         ELSE [call EXCEPT !.pc = "update"]

EnterAssign(call) ==
    IF ~Truthy(Get(call.body, "team_id"))
    THEN Answer(call, 400, "Team ID is required", NoRecord)
    ELSE [call EXCEPT !.pc = "update"]

\* Array.isArray(members) && members.length
IsArray(v) == v.k = "array"
Array(items) == [k |-> "array", items |-> items]

EnterTeams(call) ==
    LET name == Get(call.body, "name")
        members == Get(call.body, "members")
    IN IF ~Truthy(name) \/ ~Truthy(members) \/ ~IsArray(members) \/ Len(members.items) = 0
       THEN Answer(call, 400, "Team name and members are required", NoRecord)
       ELSE [call EXCEPT !.pc = "team"]

Enter(call) ==
    CASE call.route = "POST /api/requests" -> EnterCreate(call)
      [] call.route = "PATCH /api/requests/:id" -> EnterPatch(call)
      [] call.route = "PATCH /api/requests/:id/assign-team" -> EnterAssign(call)
      [] call.route = "POST /api/teams" -> EnterTeams(call)
      [] call.route = "DELETE /api/clients/:clientId/branches/:branchId" ->
            [call EXCEPT !.pc = "delete"]
      [] OTHER -> [call EXCEPT !.pc = "query"]

\* What no handler of the request routes writes.
Others == <<req, resp, pre, registered, connections, sos>>

\* A request arrives: the gate answers it, or the handler runs to its first await.
Start(route, v, header, id, body) ==
    LET auth == Gate(v, header)
        call == NewCall(route, v, header, id, body)
    IN /\ Len(calls) < MaxCalls
       /\ calls' = Append(calls,
                     IF auth.status # 0
                     THEN [call EXCEPT !.pc = "done", !.responses = 1, !.resp = Rejected(auth)]
                     ELSE Enter(call))
       /\ UNCHANGED <<requests, branches, teams, team_members, Others>>

\* The handler c stands before a query of route.
At(c, route, pcs) == calls[c].route = route /\ calls[c].pc \in pcs

\* POST /api/requests, one query per step.
StepCreate(c, ok) ==
    LET call == calls[c]
        insertId == Len(requests) + 1
        found == SelectRequest(requests, N(call.n))
    IN /\ At(c, "POST /api/requests", {"name", "service", "branch", "insert", "select"})
       /\ calls' = [calls EXCEPT ![c] =
             IF ~ok THEN Fail(call)
             ELSE CASE call.pc = "name" ->
                         IF MissingRequired(call.user, call.body, branches)
                         THEN Answer(Issue(call, "done"), 400, "Missing required fields", NoRecord)
                         ELSE Issue(call, "service")
                    [] call.pc = "service" ->
                         IF SelectServiceType(Get(call.body, "serviceTypeId")) = {}
                         THEN Answer(Issue(call, "done"), 400, "Invalid service type", NoRecord)
                         ELSE Issue(call, "branch")
                    [] call.pc = "branch" ->
                         IF SelectBranch(branches, CreateBranchId(call.user, call.body)) = {}
                         THEN Answer(Issue(call, "done"), 400, "Invalid branch", NoRecord)
                         ELSE Issue(call, "insert")
                    [] call.pc = "insert" -> [Issue(call, "select") EXCEPT !.n = insertId]
                    [] OTHER ->
                         IF found = {} THEN Catch(Issue(call, "done"))
                         ELSE Answer(Issue(call, "done"), 201, "", CreatedRecord(call, requests))]
       /\ requests' = IF ok /\ call.pc = "insert"
                      THEN Append(requests,
                                  InsertedRow(insertId, call.user, call.body, Clock(requests, 1)))
                      ELSE requests
       /\ UNCHANGED <<branches, teams, team_members, Others>>

\* PATCH /api/requests/:id: the commander's lookup (src/server.js), the UPDATE
\* (which MySQL rejects when the SET clause is empty), the read-back.
StepPatch(c, ok) ==
    LET call == calls[c]
        dbUpdates == DbUpdates(call.v, call.body)
        found == SelectRequest(requests, call.id)
    IN /\ At(c, "PATCH /api/requests/:id", {"team", "update", "select"})
       /\ calls' = [calls EXCEPT ![c] =
             IF ~ok \/ (call.pc = "update" /\ DOMAIN dbUpdates = {}) THEN Fail(call)
             ELSE CASE call.pc = "team" -> Issue(call, "update")
                    [] call.pc = "update" -> Issue(call, "select")
                    [] OTHER ->
                         IF found = {}
                         THEN Answer(Issue(call, "done"), 404, "Request not found", NoRecord)
                         ELSE Answer(Issue(call, "done"), 200, "",
                                     mapRequestFields(ReadBack(call.v,
                                         requests[CHOOSE i \in found : TRUE], branches)))]
       /\ requests' = IF ok /\ call.pc = "update" /\ DOMAIN dbUpdates # {}
                      THEN UpdateRequests(requests, call.id, dbUpdates)
                      ELSE requests
       /\ UNCHANGED <<branches, teams, team_members, Others>>

\* PATCH /api/requests/:id/assign-team: the UPDATE, then the read-back.
StepAssign(c, ok) ==
    LET call == calls[c]
        found == SelectRequest(requests, call.id)
    IN /\ At(c, "PATCH /api/requests/:id/assign-team", {"update", "select"})
       /\ calls' = [calls EXCEPT ![c] =
             IF ~ok THEN Fail(call)
             ELSE IF call.pc = "update" THEN Issue(call, "select")
             ELSE IF found = {} THEN Catch(Issue(call, "done"))
             ELSE Answer(Issue(call, "done"), 200, "",
                         mapRequestFields(JoinedRow(requests[CHOOSE i \in found : TRUE], branches)))]
       /\ requests' = IF ok /\ call.pc = "update"
                      THEN UpdateRequests(requests, call.id, AssignUpdates(call.body))
                      ELSE requests
       /\ UNCHANGED <<branches, teams, team_members, Others>>

\* DELETE /api/clients/:clientId/branches/:branchId: one DELETE.
StepDelete(c, ok) ==
    LET call == calls[c] IN
    /\ At(c, "DELETE /api/clients/:clientId/branches/:branchId", {"delete"})
    /\ calls' = [calls EXCEPT ![c] =
          IF ~ok THEN Fail(call)
          ELSE Answer(Issue(call, "done"), 200, "Branch deleted successfully", NoRecord)]
    /\ branches' = IF ok THEN branches \ SelectBranch(branches, call.id) ELSE branches
    /\ UNCHANGED <<requests, teams, team_members, Others>>

\* The members GROUP_CONCAT and COUNT see for a team.
MembersOf(teamId) == {i \in 1..Len(team_members) : team_members[i].team_id = teamId}

\* A POST /api/teams inside a transaction: a failed statement takes the team
\* and its members back out.
StepTeams_Rollback(c, ok) ==
    LET call == calls[c]
        teamId == Len(teams) + 1
        members == Get(call.body, "members").items
    IN /\ At(c, "POST /api/teams", {"team", "member", "select"})
       /\ calls' = [calls EXCEPT ![c] =
             IF ~ok THEN Fail(call)
             ELSE CASE call.pc = "team" -> [Issue(call, "member") EXCEPT !.n = teamId, !.k = 1]
                    [] call.pc = "member" ->
                         [Issue(call, IF call.k = Len(members) THEN "select" ELSE "member")
                             EXCEPT !.k = call.k + 1]
                    [] OTHER ->
                         Answer(Issue(call, "done"), 201, "",
                                [id |-> N(call.n), name |-> Get(call.body, "name"),
                                 member_count |-> N(Cardinality(MembersOf(call.n)))])]
       /\ teams' = IF ok /\ call.pc = "team"
                   THEN Append(teams, [id |-> teamId, name |-> Get(call.body, "name")])
                   ELSE IF ok THEN teams
                   ELSE SelectSeq(teams, LAMBDA t : t.id # call.n)
       /\ team_members' = IF ok /\ call.pc = "member"
                          THEN Append(team_members,
                                      [team_id |-> call.n, staff_id |-> members[call.k]])
                          ELSE IF ok THEN team_members
                          ELSE SelectSeq(team_members, LAMBDA m : m.team_id # call.n)
       /\ UNCHANGED <<requests, branches, Others>>

\* POST /api/teams: the team's INSERT, one INSERT per member, the read-back.
StepTeams(c, ok) ==
    LET call == calls[c]
        teamId == Len(teams) + 1
        members == Get(call.body, "members").items
    IN /\ At(c, "POST /api/teams", {"team", "member", "select"})
       /\ calls' = [calls EXCEPT ![c] =
             IF ~ok THEN Fail(call)
             ELSE CASE call.pc = "team" -> [Issue(call, "member") EXCEPT !.n = teamId, !.k = 1]
                    [] call.pc = "member" ->
                         [Issue(call, IF call.k = Len(members) THEN "select" ELSE "member")
                             EXCEPT !.k = call.k + 1]
                    [] OTHER ->
                         Answer(Issue(call, "done"), 201, "",
                                [id |-> N(call.n), name |-> Get(call.body, "name"),
                                 member_count |-> N(Cardinality(MembersOf(call.n)))])]
       /\ teams' = IF ok /\ call.pc = "team"
                   THEN Append(teams, [id |-> teamId, name |-> Get(call.body, "name")])
                   ELSE teams
       /\ team_members' = IF ok /\ call.pc = "member"
                          THEN Append(team_members,
                                      [team_id |-> call.n, staff_id |-> members[call.k]])
                          ELSE team_members
       /\ UNCHANGED <<requests, branches, Others>>

\* GET /api/requests and GET /api/runs/summaries: one SELECT.
StepQuery(c, ok) ==
    LET call == calls[c] IN
    /\ At(c, call.route, {"query"})
    /\ \E order \in CreatedDesc(ListMatches(call.body, requests), requests) :
          calls' = [calls EXCEPT ![c] =
             IF ~ok THEN Fail(call)
             ELSE IF call.route = "GET /api/requests"
             THEN Send(Issue(call, "done"),
                       listRequests(call.user, call.body, requests, branches, order))
             ELSE Send(Issue(call, "done"),
                       Response(200, "", NoRecord,
                                runSummaries(call.v, call.user, call.body, requests, branches),
                                TRUE, call.user))]
    /\ UNCHANGED <<requests, branches, teams, team_members, Others>>

\* The requests that arrive while others are being handled.
StepStarts ==
    {<<"POST /api/requests", "server", NoHeader, Undefined, Body1>>,
     <<"POST /api/requests", "server", NoHeader, Undefined, Without(Body1, "branchName")>>,
     <<"POST /api/requests", "server", NoHeader, Undefined, Without(Body1, "price")>>,
     <<"POST /api/requests", "part001", Bearer(1), Undefined, Body1>>,
     <<"PATCH /api/requests/:id", "server", NoHeader, S("1"), [status |-> S("completed")]>>,
     <<"PATCH /api/requests/:id", "server", NoHeader, S("1"), [team_id |-> N(1)]>>,
     <<"PATCH /api/requests/:id", "server", NoHeader, S("1"), EmptyObject>>,
     <<"PATCH /api/requests/:id/assign-team", "part001", Bearer(3), S("1"), [team_id |-> N(2)]>>,
     <<"PATCH /api/requests/:id/assign-team", "part001", Bearer(3), S("1"), EmptyObject>>,
     <<"DELETE /api/clients/:clientId/branches/:branchId", "part001", Bearer(3), S("1"), EmptyObject>>,
     <<"POST /api/teams", "part001", Bearer(3), Undefined,
       [name |-> S("alpha"), members |-> Array(<<N(7), N(8)>>)]>>,
     <<"POST /api/teams", "part001", Bearer(3), Undefined,
       [name |-> S("alpha"), members |-> Array(<<>>)]>>,
     <<"GET /api/requests", "server", NoHeader, Undefined, EmptyObject>>,
     <<"GET /api/runs/summaries", "server", NoHeader, Undefined, EmptyObject>>,
     <<"PATCH /api/requests/:id/assign-team", "part001", Expired, S("1"), [team_id |-> N(2)]>>}

NextSteps ==
    \/ \E s \in StepStarts : Start(s[1], s[2], s[3], s[4], s[5])
    \/ \E c \in 1..Len(calls), ok \in BOOLEAN : StepCreate(c, ok)
    \/ \E c \in 1..Len(calls), ok \in BOOLEAN : StepPatch(c, ok)
    \/ \E c \in 1..Len(calls), ok \in BOOLEAN : StepAssign(c, ok)
    \/ \E c \in 1..Len(calls), ok \in BOOLEAN : StepDelete(c, ok)
    \/ \E c \in 1..Len(calls), ok \in BOOLEAN : StepTeams(c, ok)
    \/ \E c \in 1..Len(calls), ok \in BOOLEAN : StepQuery(c, ok)

SpecSteps == Init /\ [][NextSteps]_vars

----------------------------------------------------------------------------
(* The auth routes, one await per step.                                    *)

\* The columns of the seeded branches that only the auth routes read.
BranchEmail(b) ==
    CASE b = 1 -> S("north@bm")
      [] b = 2 -> S("south@bm")
      [] OTHER -> S("hq@bm")

BranchSecret(b) ==
    CASE b = 1 -> S("pw-north")
      [] b = 2 -> S("pw-south")
      [] OTHER -> S("pw-hq")

\* bcrypt.hash(password, 12)
Hash(password) == [k |-> "hash", of |-> password]

\* bcrypt.compare(password, hash): bcryptjs rejects an argument that is not a
\* string ("Illegal arguments"), which the await throws.
Compare(password, hash) ==
    IF password.k # "string" \/ hash.k # "hash" THEN "throws"
    ELSE IF hash.of = password THEN "true"
    ELSE "false"

\* The branches table: the seeded rows that are left, then the registered ones.
BranchTable(brs, regs) ==
    LET seeded == [b \in 1..Cardinality(DOMAIN BranchRows) |->
                      [id |-> N(b), name |-> BranchRows[b].name, email |-> BranchEmail(b),
                       password |-> Hash(BranchSecret(b)), role |-> BranchRows[b].role,
                       client_id |-> BranchRows[b].client_id]]
    IN SelectSeq(seeded, LAMBDA r : r.id.n \in brs) \o regs

\* SELECT id FROM branches WHERE email = ?
SelectByEmail(table, email) == {i \in 1..Len(table) : SqlEq(table[i].email, email)}

\* SELECT * FROM branches WHERE name = ?
SelectByName(table, name) == {i \in 1..Len(table) : SqlEq(table[i].name, name)}

\* The row INSERT INTO branches (name, email, password, role) stores.
RegisteredRow(id, body) ==
    [id |-> N(id), name |-> body.name, email |-> body.email,
     password |-> Hash(body.password), role |-> Or(Get(body, "role"), S("branch")),
     client_id |-> Null]

\* jwt.sign(...) and the body of the 201 of register.
RegisterRecord(id, body) ==
    LET role == Or(Get(body, "role"), S("branch")) IN
    [k |-> "session",
     token |-> Jwt([k |-> "object", branchId |-> N(id), name |-> body.name,
                    role |-> role, email |-> body.email], JWT_SECRET, Today + 1),
     user |-> [id |-> N(id), name |-> body.name, email |-> body.email, role |-> role]]

\* jwt.sign(...) and the body of the 200 of login.
LoginRecord(branch) ==
    [k |-> "session",
     token |-> Jwt([k |-> "object", branchId |-> branch.id, name |-> branch.name,
                    role |-> branch.role, clientId |-> branch.client_id],
                   JWT_SECRET, Today + 1),
     user |-> [id |-> branch.id, name |-> branch.name, email |-> branch.email,
               role |-> branch.role, client_id |-> branch.client_id]]

\* if (!name || !email || !password)
EnterRegister(call) ==
    IF \/ ~Truthy(Get(call.body, "name"))
       \/ ~Truthy(Get(call.body, "email"))
       \/ ~Truthy(Get(call.body, "password"))
    THEN Answer(call, 400, "Name, email, and password are required", NoRecord)
    ELSE [call EXCEPT !.pc = "exists"]

\* if (!username || !password): the route handlers have it, the login of
\* src/controllers/authController.js goes to its query at once.
EnterLogin(call) ==
    IF call.v # "controller"
       /\ (~Truthy(Get(call.body, "username")) \/ ~Truthy(Get(call.body, "password")))
    THEN Answer(call, 400, "Username and password are required", NoRecord)
    ELSE [call EXCEPT !.pc = "find"]

\* A request to an auth route arrives: no gate stands in front of these routes.
StartAuth(route, v, body) ==
    LET call == NewCall(route, "server", NoHeader, Undefined, body) IN
    /\ Len(calls) < MaxCalls
    /\ calls' = Append(calls,
                  IF route = "POST /api/auth/register"
                  THEN EnterRegister([call EXCEPT !.v = v])
                  ELSE EnterLogin([call EXCEPT !.v = v]))
    /\ UNCHANGED <<requests, branches, teams, team_members, Others>>

\* POST /api/auth/register: the lookup by email, the hash, the INSERT.
StepRegister(c, ok) ==
    LET call == calls[c]
        table == BranchTable(branches, registered)
        insertId == Cardinality(DOMAIN BranchRows) + Len(registered) + 1
    IN /\ At(c, "POST /api/auth/register", {"exists", "hash", "insert"})
       /\ call.pc = "hash" => ok
       /\ calls' = [calls EXCEPT ![c] =
             IF ~ok THEN Fail(call)
             ELSE CASE call.pc = "exists" ->
                         IF SelectByEmail(table, call.body.email) # {}
                         THEN Answer(Issue(call, "done"), 409, "User already exists", NoRecord)
                         ELSE Issue(call, "hash")
                    [] call.pc = "hash" -> [call EXCEPT !.pc = "insert"]
                    [] OTHER ->
                         Answer([Issue(call, "done") EXCEPT !.n = insertId], 201, "",
                                RegisterRecord(insertId, call.body))]
       /\ registered' = IF ok /\ call.pc = "insert"
                        THEN Append(registered, RegisteredRow(insertId, call.body))
                        ELSE registered
       /\ UNCHANGED <<requests, branches, teams, team_members, req, resp, pre, connections, sos>>

\* POST /api/auth/login: the lookup by name, then bcrypt.compare against branches[0].
StepLogin(c, ok) ==
    LET call == calls[c]
        table == BranchTable(branches, registered)
        found == SelectByName(table, Get(call.body, "username"))
        first == CHOOSE i \in found : \A j \in found : i <= j
        verdict == Compare(Get(call.body, "password"), table[call.n].password)
    IN /\ At(c, "POST /api/auth/login", {"find", "compare"})
       /\ call.pc = "compare" => ok
       /\ calls' = [calls EXCEPT ![c] =
             IF ~ok THEN Fail(call)
             ELSE IF call.pc = "find"
             THEN IF found = {}
                  THEN Answer(Issue(call, "done"), 401, "Invalid credentials", NoRecord)
                  ELSE [Issue(call, "compare") EXCEPT !.n = first]
             ELSE CASE verdict = "throws" -> Catch(call)
                    [] verdict = "false" -> Answer(call, 401, "Invalid credentials", NoRecord)
                    [] OTHER -> Answer(call, 200, "", LoginRecord(table[call.n]))]
       /\ UNCHANGED <<requests, branches, teams, team_members, Others>>

\* The bodies the auth routes are sent.
RegisterBodies ==
    {[name |-> S("east"), email |-> S("east@bm"), password |-> S("pw-east")],
     [name |-> S("north"), email |-> S("east@bm"), password |-> S("pw-2"), role |-> S("admin")],
     [name |-> S("west"), email |-> S("north@bm"), password |-> S("pw-west")],
     [name |-> S("west"), password |-> S("pw-west")]}

LoginBodies ==
    {[username |-> S("north"), password |-> S("pw-north")],
     [username |-> S("north"), password |-> S("pw-2")],
     [username |-> S("east"), password |-> S("pw-east")],
     [username |-> S("nobody"), password |-> S("pw-north")],
     [password |-> S("pw-north")],
     [username |-> S("north")]}

LoginVariants == {"server", "api", "part001", "controller"}

NextAuth ==
    \/ \E body \in RegisterBodies : StartAuth("POST /api/auth/register", "api", body)
    \/ \E v \in LoginVariants, body \in LoginBodies : StartAuth("POST /api/auth/login", v, body)
    \/ \E c \in 1..Len(calls), ok \in BOOLEAN : StepRegister(c, ok)
    \/ \E c \in 1..Len(calls), ok \in BOOLEAN : StepLogin(c, ok)

SpecAuth == Init /\ [][NextAuth]_vars

----------------------------------------------------------------------------
(* executeQuery of src/database/serverless-db.js, one await per step.      *)

Error(from) == [k |-> "error", from |-> from]
Results(query) == [k |-> "rows", of |-> query]
Pending == [k |-> "pending"]

\* An invocation of executeQuery: env tells whether DB_HOST, DB_USER,
\* DB_PASSWORD and DB_NAME are set, connection is the index of the connection
\* it holds (0 for `let connection;`), completion what the try block left to
\* return or throw, settled what the caller's await was given.
NewQuery(query, env) ==
    [route |-> "executeQuery", query |-> query, env |-> env, pc |-> "connect",
     connection |-> 0, completion |-> Pending, settled |-> Pending, ends |-> 0]

\* A finally block whose connection.end() is not wrapped in a try: its error
\* replaces the completion of the try block.
Settle_EndThrows(call, ended) ==
    [call EXCEPT !.pc = "settled", !.ends = @ + 1,
                 !.settled = IF ended THEN call.completion ELSE Error("end")]

\* finally { try { await connection.end() } catch (error) { console.error } }:
\* the completion of the try block stands, whether end() came back or threw.
Settle(call, ended) ==
    [call EXCEPT !.pc = "settled", !.ends = @ + 1, !.settled = call.completion]

\* A caller awaits executeQuery(query, params).
StartQuery(query, env) ==
    /\ Len(calls) < MaxCalls
    /\ calls' = Append(calls, NewQuery(query, env))
    /\ UNCHANGED <<requests, branches, teams, team_members, Others>>

\* connection = await createConnection(): the check of the environment, then
\* mysql.createConnection.  Either may throw: the catch rethrows, and finally
\* finds connection undefined.
StepConnect(c, ok) ==
    LET call == calls[c] IN
    /\ At(c, "executeQuery", {"connect"})
    /\ calls' = [calls EXCEPT ![c] =
          IF ~call.env
          THEN [call EXCEPT !.pc = "settled", !.completion = Error("environment"),
                            !.settled = Error("environment")]
          ELSE IF ~ok
          THEN [call EXCEPT !.pc = "settled", !.completion = Error("connect"),
                            !.settled = Error("connect")]
          ELSE [call EXCEPT !.pc = "execute", !.connection = Len(connections) + 1]]
    /\ connections' = IF call.env /\ ok
                      THEN Append(connections, [state |-> "open", query |-> call.query])
                      ELSE connections
    /\ UNCHANGED <<requests, branches, teams, team_members, req, resp, pre, registered, sos>>

\* const [results] = await connection.execute(query, params); return results
StepExecute(c, ok) ==
    LET call == calls[c] IN
    /\ At(c, "executeQuery", {"execute"})
    /\ calls' = [calls EXCEPT ![c] =
          [call EXCEPT !.pc = "end",
                       !.completion = IF ok THEN Results(call.query) ELSE Error("execute")]]
    /\ UNCHANGED <<requests, branches, teams, team_members, Others>>

\* await connection.end() in the finally block.
StepEnd(c, ok) ==
    LET call == calls[c] IN
    /\ At(c, "executeQuery", {"end"})
    /\ calls' = [calls EXCEPT ![c] = Settle(call, ok)]
    /\ connections' = [connections EXCEPT ![call.connection].state =
                          IF ok THEN "ended" ELSE "end failed"]
    /\ UNCHANGED <<requests, branches, teams, team_members, req, resp, pre, registered, sos>>

\* The statements and the environments executeQuery is called with.
Queries == {"SELECT id FROM branches WHERE email = ?", "INSERT INTO branches"}

NextDb ==
    \/ \E query \in Queries, env \in BOOLEAN : StartQuery(query, env)
    \/ \E c \in 1..Len(calls), ok \in BOOLEAN : StepConnect(c, ok)
    \/ \E c \in 1..Len(calls), ok \in BOOLEAN : StepExecute(c, ok)
    \/ \E c \in 1..Len(calls), ok \in BOOLEAN : StepEnd(c, ok)

SpecDb == Init /\ [][NextDb]_vars

----------------------------------------------------------------------------
(* Concurrent PATCHes of one request.                                      *)

\* The table once POST /api/requests has stored a first request.
InitPatch ==
    /\ requests = <<InsertedRow(1, Undefined, Body1, 1)>>
    /\ branches = DOMAIN BranchRows
    /\ req = NoRequest
    /\ resp = NoResponse
    /\ pre = [requests |-> <<>>, branches |-> DOMAIN BranchRows]
    /\ calls = <<>>
    /\ teams = <<>>
    /\ team_members = <<>>
    /\ registered = <<>>
    /\ connections = <<>>
    /\ sos = SosRows

\* The PATCHes that arrive while others are being handled.
PatchStarts ==
    {<<"server", NoHeader, S("1"), [status |-> S("completed")]>>,
     <<"server", NoHeader, S("1"), [team_id |-> N(1)]>>,
     <<"api", Bearer(1), S("1"), [team_id |-> N(2), status |-> S("archived")]>>,
     <<"api", Bearer(1), S("1"), [priority |-> S("high")]>>}

NextPatch ==
    \/ \E s \in PatchStarts : Start("PATCH /api/requests/:id", s[1], s[2], s[3], s[4])
    \/ \E c \in 1..Len(calls), ok \in BOOLEAN : StepPatch(c, ok)

SpecPatch == InitPatch /\ [][NextPatch]_vars

----------------------------------------------------------------------------
(* PATCH /api/sos/:id/status, one query per step.                          *)

validStatuses == {"pending", "in_progress", "resolved"}

\* A validation that only asks for a status to be given.
ValidStatus_Truthy(status) == Truthy(status)

\* validStatuses.includes(status): one of the three strings, compared strictly.
ValidStatus(status) == status.k = "string" /\ status.s \in validStatuses

\* A request to the route arrives: the gate, then the validation.
StartSos(v, header, id, body) ==
    LET auth == Gate(v, header)
        call == NewCall("PATCH /api/sos/:id/status", v, header, id, body)
    IN /\ Len(calls) < MaxCalls
       /\ calls' = Append(calls,
                     IF auth.status # 0
                     THEN [call EXCEPT !.pc = "done", !.responses = 1, !.resp = Rejected(auth)]
                     ELSE IF ~ValidStatus(Get(body, "status"))
                     THEN Answer(call, 400, "Invalid status", NoRecord)
                     ELSE [call EXCEPT !.pc = "update"])
       /\ UNCHANGED <<requests, branches, teams, team_members, Others>>

\* UPDATE sos SET status = ?, comment = ? WHERE id = ?, with comment || null.
UpdateSos(rows, id, body) ==
    [i \in 1..Len(rows) |->
        IF SqlEq(rows[i].id, id)
        THEN [rows[i] EXCEPT !.status = Get(body, "status"),
                             !.comment = Or(Get(body, "comment"), Null)]
        ELSE rows[i]]

\* The UPDATE, then the read-back; res.json(updatedSos[0]) has no body when
\* no row has the id.
StepSos(c, ok) ==
    LET call == calls[c]
        found == {i \in 1..Len(sos) : SqlEq(sos[i].id, call.id)}
    IN /\ At(c, "PATCH /api/sos/:id/status", {"update", "select"})
       /\ calls' = [calls EXCEPT ![c] =
             IF ~ok THEN Fail(call)
             ELSE IF call.pc = "update" THEN Issue(call, "select")
             ELSE Answer(Issue(call, "done"), 200, "",
                         IF found = {} THEN Undefined ELSE sos[CHOOSE i \in found : TRUE])]
       /\ sos' = IF ok /\ call.pc = "update" THEN UpdateSos(sos, call.id, call.body) ELSE sos
       /\ UNCHANGED <<requests, branches, teams, team_members, req, resp, pre, registered,
                      connections>>

\* The statuses sent: the three of the list, others, and none.
SosBodies ==
    {[status |-> S("resolved")],
     [status |-> S("in_progress"), comment |-> S("crew sent")],
     [status |-> S("pending"), comment |-> S("")],
     [status |-> S("closed")],
     [status |-> S("Resolved")],
     [status |-> S("")],
     [status |-> Null],
     [status |-> N(1)],
     [comment |-> S("no status")],
     EmptyObject}

SosCalls ==
    ({"server"} \X {NoHeader} \X {S("1"), S("9")} \X SosBodies)
    \cup ({"api"} \X {Bearer(1)} \X {S("2")} \X SosBodies)
    \cup ({"api"} \X {Expired} \X {S("1")} \X {[status |-> S("resolved")]})

NextSos ==
    \/ \E s \in SosCalls : StartSos(s[1], s[2], s[3], s[4])
    \/ \E c \in 1..Len(calls), ok \in BOOLEAN : StepSos(c, ok)

SpecSos == Init /\ [][NextSos]_vars

----------------------------------------------------------------------------
(* The claims.                                                             *)

Answered(route) == req.route = route /\ resp.ran
Unchanged == requests = pre.requests /\ branches = pre.branches
Missing(v) == v.k \in {"undefined", "null"}
Guarded == ~Idle /\ req.v # "server"

\* C1: on a route behind authenticateToken, a request without a token gets 401
\* and one whose token fails verification gets 403; in both cases the handler
\* does not run and no table changes; when the handler runs, req.user is the
\* principal of a token issued at login.
C1_AuthGate ==
    Guarded =>
        /\ req.header \in {NoHeader, BearerOnly}
              => (resp.status = 401 /\ ~resp.ran /\ Unchanged)
        /\ req.header \in {Expired, Forged}
              => (resp.status = 403 /\ ~resp.ran /\ Unchanged)
        /\ resp.ran
              => \E b \in DOMAIN BranchRows :
                    req.header = Bearer(b) /\ resp.user = LoginPayload(b)

C1_Witness ==
    /\ req.route = "PATCH /api/requests/:id"
    /\ req.v = "api"
    /\ req.header = Expired
    /\ resp.status = 403
    /\ Len(requests) >= 1

\* The requests table without the rows whose ids are in drop.
Keep(reqs, drop) == SelectSeq(reqs, LAMBDA r : r.id.n \notin drop)

OtherBranchRows(reqs, user) ==
    {i \in 1..Len(reqs) : reqs[i].branch_id # user.branchId}

\* C2: in the serverless summaries, a caller who is not admin is counted only
\* requests of the token's branch, whatever branchId the query carries: the
\* response is the one the caller gets from any table that differs only in
\* requests of other branches.
C2_BranchScoped ==
    (Answered("GET /api/runs/summaries") /\ req.v = "api" /\ resp.user.role # S("admin")) =>
        /\ \A i \in SummaryMatches("api", resp.user, req.query, requests, branches) :
              requests[i].branch_id = resp.user.branchId
        /\ \A drop \in SUBSET OtherBranchRows(requests, resp.user) :
              runSummaries("api", resp.user, req.query, Keep(requests, drop), branches)
                 = resp.rows

C2_Witness ==
    /\ Answered("GET /api/runs/summaries")
    /\ req.v = "api"
    /\ req.header = Bearer(1)
    /\ req.query = [branchId |-> S("2")]
    /\ \E i, j \in 1..Len(requests) :
          requests[i].branch_id = N(1) /\ requests[j].branch_id = N(2)
    /\ Len(resp.rows) = 1

\* The branch a create is for: the principal's when the token carries one,
\* the body's otherwise.
EffectiveBranchId ==
    IF resp.user.k = "object" /\ Truthy(resp.user.branchId)
    THEN resp.user.branchId
    ELSE Get(req.body, "branchId")

NoServiceType(id) == \A s \in DOMAIN ServiceTypeRows : ~SqlEq(N(s), id)
NoBranch(id) == \A b \in pre.branches : ~SqlEq(N(b), id)

\* C3 as stated: a create whose body names a serviceTypeId or a branchId that
\* no row has is answered 400 and stores nothing.
C3_Original ==
    (Answered("POST /api/requests")
       /\ \/ NoServiceType(Get(req.body, "serviceTypeId"))
          \/ (Truthy(Get(req.body, "branchId")) /\ NoBranch(Get(req.body, "branchId"))))
    => (resp.status = 400 /\ Unchanged)

\* C3, amended: a create whose serviceTypeId, or whose effective branchId (the
\* principal's when the token carries one, the body's otherwise), matches no
\* row is answered 400 and stores nothing.
C3_InvalidReference ==
    (Answered("POST /api/requests")
       /\ (NoServiceType(Get(req.body, "serviceTypeId")) \/ NoBranch(EffectiveBranchId)))
    => (resp.status = 400 /\ Unchanged)

C3_Witness ==
    /\ Answered("POST /api/requests")
    /\ req.v = "api"
    /\ req.body = Body1
    /\ NoBranch(EffectiveBranchId)
    /\ resp.message = "Invalid branch"

\* branchName once resolved: the principal's name, else the body's, else the
\* name of the branch row the effective branchId selects.
BranchNameMissing ==
    /\ ~(resp.user.k = "object" /\ Truthy(resp.user.name))
    /\ Missing(Get(req.body, "branchName"))
    /\ NoBranch(EffectiveBranchId)

\* C4: a create is answered 400 and stores nothing whenever branchId,
\* branchName (once resolved), serviceTypeId, pickupLocation, deliveryLocation,
\* pickupDate or price is missing.
C4_MissingField ==
    (Answered("POST /api/requests")
       /\ \/ Missing(EffectiveBranchId)
          \/ BranchNameMissing
          \/ \E key \in RequiredBodyKeys : Missing(Get(req.body, key)))
    => (resp.status = 400 /\ resp.message = "Missing required fields" /\ Unchanged)

C4_Witness ==
    /\ Answered("POST /api/requests")
    /\ req.body = Without(Body1, "pickupDate")
    /\ resp.status = 400
    /\ Len(requests) >= 1

Addressed == {i \in 1..Len(pre.requests) : SqlEq(pre.requests[i].id, req.id)}

\* C6 as stated: a PATCH whose id matches no request row is answered 404 and
\* changes no row, whatever the body.
C6_NotFound ==
    (Answered("PATCH /api/requests/:id") /\ Addressed = {})
    => (resp.status = 404 /\ Unchanged)

\* A PATCH of an id no row has, with a body of no recognised field.
C6_Witness ==
    /\ Answered("PATCH /api/requests/:id")
    /\ req.v = "server"
    /\ Addressed = {}
    /\ req.body = EmptyObject
    /\ resp.status = 500
    /\ Unchanged

\* The teams whose id the body's team_id matches and that have a commander.
CommandedTeams ==
    {t \in DOMAIN TeamRows :
        /\ SqlEq(N(t), Get(req.body, "team_id"))
        /\ TeamRows[t].crew_commander_id.k = "number"}

\* C7 as stated: after a PATCH of an existing request with team_id T, where
\* team T exists and its commander is staff S, the stored request has
\* team_id = T and staff_id = S.
C7_CommanderAssigned ==
    (Answered("PATCH /api/requests/:id") /\ Addressed # {}) =>
        \A t \in CommandedTeams : \A i \in Addressed :
            /\ requests[i].team_id = N(t)
            /\ requests[i].staff_id = TeamRows[t].crew_commander_id

\* A PATCH with team 1, whose commander is staff 7, that leaves staff_id NULL.
C7_Witness ==
    /\ Answered("PATCH /api/requests/:id")
    /\ req.v = "api"
    /\ req.body = [team_id |-> N(1)]
    /\ resp.status = 200
    /\ \E i \in Addressed : requests[i].team_id = N(1) /\ requests[i].staff_id = Null

\* The columns a PATCH may write: those whose allow-listed field is a key of
\* the body, and staff_id when the body names a team.
Writable ==
    {c \in DOMAIN PatchFieldMap(req.v) : PatchFieldMap(req.v)[c] \in DOMAIN req.body}
    \cup (IF "team_id" \in DOMAIN req.body THEN {"staff_id"} ELSE {})

\* C8: a PATCH changes only columns of the addressed row whose allow-listed
\* field is in the body (and staff_id when a team is supplied): a key outside
\* the allow-list alters nothing, absent fields keep their value, and no other
\* row changes.
C8_Frame ==
    Answered("PATCH /api/requests/:id") =>
        /\ Len(requests) = Len(pre.requests)
        /\ branches = pre.branches
        /\ \A i \in 1..Len(pre.requests) :
              /\ DOMAIN requests[i] = DOMAIN pre.requests[i]
              /\ \A c \in DOMAIN pre.requests[i] :
                    requests[i][c] # pre.requests[i][c]
                       => (i \in Addressed /\ c \in Writable)

C8_Witness ==
    /\ Answered("PATCH /api/requests/:id")
    /\ req.body = [status |-> S("pending"), price |-> N(1)]
    /\ resp.status = 200
    /\ Len(requests) = 2
    /\ requests[1].status # pre.requests[1].status
    /\ requests[1].price = pre.requests[1].price
    /\ requests[2] = pre.requests[2]

\* The ids of the records a list returned.
Returned == {resp.rows[a].id.n : a \in 1..Len(resp.rows)}

Listed == Answered("GET /api/requests") /\ Len(resp.rows) = Cardinality(Returned)

\* status, branchId and pickupDate as the query gives them, each compared
\* only when the query has the key.
OtherFiltersHold(row) ==
    /\ "status" \in DOMAIN req.query /\ req.query.status # S("")
          => SqlEq(row.status, req.query.status)
    /\ "branchId" \in DOMAIN req.query /\ req.query.branchId # S("")
          => SqlEq(row.branch_id, req.query.branchId)
    /\ "pickupDate" \in DOMAIN req.query /\ req.query.pickupDate # S("")
          => (row.pickup_date.k = "datetime" /\ req.query.pickupDate.k = "date"
              /\ row.pickup_date.day = req.query.pickupDate.day)

\* C9: a list with myStatus=0 returns exactly the rows whose my_status is 0:
\* the filter is applied whenever the parameter is present, the value zero
\* and the empty value included, and skipped only when it is omitted.
C9_MyStatusPresence ==
    Answered("GET /api/requests") =>
        /\ Listed
        /\ "myStatus" \in DOMAIN req.query =>
              Returned = {i \in 1..Len(requests) :
                            /\ OtherFiltersHold(requests[i])
                            /\ requests[i].my_status = N(StrToNum(req.query.myStatus.s))}
        /\ "myStatus" \notin DOMAIN req.query =>
              Returned = {i \in 1..Len(requests) : OtherFiltersHold(requests[i])}

C9_Witness ==
    /\ Answered("GET /api/requests")
    /\ req.query = [myStatus |-> S("0")]
    /\ \E i, j \in 1..Len(requests) :
          requests[i].my_status = N(0) /\ requests[j].my_status = N(3)
    /\ Len(resp.rows) = 1
    /\ resp.rows[1].myStatus = N(0)

\* Every filter the query has a key for holds of the row.
SuppliedFiltersHold(row) ==
    /\ "status" \in DOMAIN req.query => SqlEq(row.status, req.query.status)
    /\ "myStatus" \in DOMAIN req.query => SqlEq(row.my_status, req.query.myStatus)
    /\ "branchId" \in DOMAIN req.query => SqlEq(row.branch_id, req.query.branchId)
    /\ "pickupDate" \in DOMAIN req.query
          => (row.pickup_date.k = "datetime" /\ req.query.pickupDate.k = "date"
              /\ row.pickup_date.day = req.query.pickupDate.day)

\* C10 as stated: a list returns exactly the rows that satisfy every supplied
\* filter among status, myStatus, branchId and pickupDate.
C10_Original ==
    Answered("GET /api/requests") =>
        Returned = {i \in 1..Len(requests) : SuppliedFiltersHold(requests[i])}

\* C10, amended: a list returns exactly the rows that satisfy every filter in
\* force at the same time, where status, branchId and pickupDate are in force
\* when supplied with a non-empty value and myStatus whenever supplied; with
\* no filter in force every row is returned.
C10_Conjunction ==
    Answered("GET /api/requests") =>
        /\ Listed
        /\ Returned = {i \in 1..Len(requests) :
                         /\ OtherFiltersHold(requests[i])
                         /\ "myStatus" \in DOMAIN req.query
                               => SqlEq(requests[i].my_status, req.query.myStatus)}
        /\ (\A key \in DOMAIN req.query : key # "myStatus" /\ req.query[key] = S(""))
              => Returned = 1..Len(requests)

C10_Witness ==
    /\ Answered("GET /api/requests")
    /\ DOMAIN req.query = {"status", "myStatus", "branchId", "pickupDate"}
    /\ Len(requests) = 2
    /\ Len(resp.rows) = 1
    /\ \E i \in 1..Len(requests) :
          /\ i \notin Returned
          /\ requests[i].branch_id = N(1)
          /\ requests[i].my_status # N(0)

\* C11 as stated: the list is newest-first by creation: of any two returned
\* records the one created later (the one with the larger insert id) comes
\* earlier, so a request a completed POST created comes before every request
\* created before it.
C11_NewestFirst ==
    Answered("GET /api/requests") =>
        \A a, b \in 1..Len(resp.rows) :
            a < b => resp.rows[a].id.n > resp.rows[b].id.n

\* Two requests created within the same second, listed oldest first.
C11_Witness ==
    /\ Answered("GET /api/requests")
    /\ req.query = EmptyObject
    /\ Len(resp.rows) = 2
    /\ resp.rows[1].id = N(1)
    /\ resp.rows[2].id = N(2)
    /\ resp.rows[1].createdAt = resp.rows[2].createdAt

\* The requests the parameters of a summary select: year, month, clientId,
\* and branchId as the variant scopes it.
QueryMatched ==
    {i \in 1..Len(requests) :
        /\ YearFilter(req.query, requests[i])
        /\ MonthFilter(req.query, requests[i])
        /\ ClientFilter(req.query, requests[i], branches)
        /\ IF req.v = "server" THEN BranchFilter(req.query, requests[i])
           ELSE BranchScope(resp.user, req.query, requests[i])}

\* What each build adds of its own: src/server.js counts only my_status = 3,
\* src/api/index.js only pickup dates of the last 30 days.
Counted ==
    {i \in QueryMatched :
        IF req.v = "server" THEN requests[i].my_status = N(3)
        ELSE requests[i].pickup_date.day >= Today - SummaryWindow}

RECURSIVE PriceSum(_)
PriceSum(ids) ==
    IF ids = {} THEN 0
    ELSE LET i == CHOOSE x \in ids : TRUE IN requests[i].price.n + PriceSum(ids \ {i})

OnDay(ids, day) == {i \in ids : requests[i].pickup_date.day = day}
Done(ids) == {i \in ids : requests[i].status = S("completed")}

\* The summary of the requests ids: one row per pickup day, with its totals.
Summarises(rows, ids) ==
    /\ {rows[a].date : a \in 1..Len(rows)} = {requests[i].pickup_date.day : i \in ids}
    /\ \A a, b \in 1..Len(rows) : a # b => rows[a].date # rows[b].date
    /\ \A a \in 1..Len(rows) :
          LET group == OnDay(ids, rows[a].date) IN
          /\ rows[a].totalRuns = Cardinality(group)
          /\ rows[a].totalRunsCompleted = Cardinality(Done(group))
          /\ rows[a].totalAmount = PriceSum(group)
          /\ rows[a].totalAmountCompleted = PriceSum(Done(group))

ApiName ==
    [id |-> "id", user_id |-> "userId", user_name |-> "userName",
     service_type_id |-> "serviceTypeId", service_type_name |-> "serviceTypeName",
     pickup_location |-> "pickupLocation", delivery_location |-> "deliveryLocation",
     pickup_date |-> "pickupDate", description |-> "description",
     priority |-> "priority", status |-> "status", my_status |-> "myStatus",
     branch_id |-> "branchId", branch_name |-> "branchName",
     client_name |-> "clientName", price |-> "price", latitude |-> "latitude",
     longitude |-> "longitude", team_id |-> "team_id", created_at |-> "createdAt",
     updated_at |-> "updatedAt"]

\* A PATCH or a POST answered with the mapped record of a stored row.
Mapped ==
    /\ ~Idle
    /\ req.route \in {"PATCH /api/requests/:id", "POST /api/requests"}
    /\ resp.status \in {200, 201}

\* The stored row the record was mapped from.
MappedRow == requests[CHOOSE i \in 1..Len(requests) : requests[i].id = resp.record.id]

\* The columns the joins of the read-back can shadow.
JoinedColumns == {"branch_name", "client_name", "service_type_name"}

\* C13 as stated: every field of the storage row that is not renamed is in
\* the record under its own name with the same value (staff_id, for example).
C13_Original ==
    Mapped =>
        \A c \in DOMAIN MappedRow :
            (c \notin DOMAIN ApiName \/ ApiName[c] = c)
               => (c \in DOMAIN resp.record /\ resp.record[c] = MappedRow[c])

\* C13, amended: the record has exactly the 21 listed fields, each with the
\* value of its column (undefined when the row has no such column); a column
\* outside the list, such as staff_id, is not in the record.
C13_ListedFields ==
    Mapped =>
        /\ DOMAIN resp.record = {ApiName[c] : c \in DOMAIN ApiName}
        /\ \A c \in DOMAIN ApiName \ JoinedColumns :
              resp.record[ApiName[c]] =
                 (IF c \in DOMAIN MappedRow THEN MappedRow[c] ELSE Undefined)
        /\ "staff_id" \notin DOMAIN resp.record

C13_Witness ==
    /\ Mapped
    /\ req.route = "PATCH /api/requests/:id"
    /\ MappedRow.staff_id = N(7)
    /\ resp.record.team_id = N(1)
    /\ resp.record.updatedAt = Undefined

\* The ids of the stored requests.
RequestIds == {requests[i].id.n : i \in 1..Len(requests)}

UnfilteredList == Answered("GET /api/requests") /\ req.query = EmptyObject

\* C14: no operation removes a row from the requests table: the set of request
\* ids only grows, and an unfiltered list returns every request created so
\* far.
C14_NoDelete ==
    [][/\ RequestIds \subseteq RequestIds'
       /\ UnfilteredList' => (RequestIds \subseteq Returned' /\ Returned' = RequestIds')]_vars

\* An unfiltered list of two requests, one patched, after their branch was deleted.
C14_Witness ==
    /\ UnfilteredList
    /\ Returned = {1, 2}
    /\ 1 \notin branches
    /\ requests[1].branch_id = N(1)
    /\ requests[1].status = S("completed")

\* The body field each build reads the progress code from.
MyStatusKey == IF req.v = "server" THEN "myStatus" ELSE "my_status"

\* C15: a PATCH stores the status and the myStatus the caller supplies, each
\* independently of the other and of the row's current values: a supplied
\* value is what the row holds afterwards, whatever it held before, and a
\* value that is not supplied stays.
C15_FreeStatus ==
    (Answered("PATCH /api/requests/:id") /\ resp.status = 200) =>
        \A i \in Addressed :
            /\ requests[i].status =
                  (IF "status" \in DOMAIN req.body THEN req.body.status
                   ELSE pre.requests[i].status)
            /\ requests[i].my_status =
                  (IF MyStatusKey \in DOMAIN req.body THEN req.body[MyStatusKey]
                   ELSE pre.requests[i].my_status)

\* A completed request, progress code 3, put back to pending.
C15_Witness ==
    /\ Answered("PATCH /api/requests/:id")
    /\ resp.status = 200
    /\ \E i \in Addressed :
          /\ pre.requests[i].status = S("completed")
          /\ pre.requests[i].my_status = N(3)
          /\ requests[i].status = S("pending")
          /\ requests[i].my_status = N(3)

\* C16: assign-team with a team_id T on an existing request leaves the request
\* with team_id = T and status "assigned", whatever its status was; with no
\* team_id in the body the answer is 400 and nothing changes.
C16_AssignTeam ==
    Answered("PATCH /api/requests/:id/assign-team") =>
        /\ ("team_id" \in DOMAIN req.body /\ Truthy(req.body.team_id)) =>
              \A i \in Addressed :
                  /\ requests[i].team_id = req.body.team_id
                  /\ requests[i].status = S("assigned")
                  /\ resp.status = 200
        /\ "team_id" \notin DOMAIN req.body => (resp.status = 400 /\ Unchanged)

\* A completed request assigned to team 2.
C16_Witness ==
    /\ Answered("PATCH /api/requests/:id/assign-team")
    /\ req.body = [team_id |-> N(2)]
    /\ \E i \in Addressed :
          /\ pre.requests[i].status = S("completed")
          /\ pre.requests[i].team_id = N(1)
          /\ requests[i].status = S("assigned")
          /\ requests[i].team_id = N(2)

\* C17 as stated: whenever POST /api/requests inserts a row, the branch and
\* the service type the row references exist at the moment of the insert,
\* however the handler interleaves with a DELETE of the branch.
C17_ReferencesExist ==
    [][Len(requests') = Len(requests) + 1 =>
          /\ SelectBranch(branches, requests'[Len(requests')].branch_id) # {}
          /\ SelectServiceType(requests'[Len(requests')].service_type_id) # {}]_vars

\* The create handler has passed its branch check and stands before its
\* INSERT; the DELETE of that branch has been answered 200.
C17_Witness ==
    \E c, d \in 1..Len(calls) :
        /\ calls[c].route = "POST /api/requests"
        /\ calls[c].v = "part001"
        /\ calls[c].pc = "insert"
        /\ SelectBranch(branches, CreateBranchId(calls[c].user, calls[c].body)) = {}
        /\ calls[d].route = "DELETE /api/clients/:clientId/branches/:branchId"
        /\ calls[d].resp.status = 200

\* The create handler c answers 201 in this step.
Answers201(c) ==
    /\ calls[c].route = "POST /api/requests"
    /\ calls[c].pc = "select"
    /\ calls'[c].pc = "done"
    /\ calls'[c].resp.status = 201

\* C18: the INSERT and the re-select of POST /api/requests are two steps with
\* no transaction: the 201 reports the row as the re-select finds it, so a
\* PATCH of the same id that ran in between is visible in it.
C18_ReselectSeesRow ==
    [][\A c \in 1..Len(calls) :
          Answers201(c) =>
             \E i \in 1..Len(requests) :
                 /\ requests[i].id = N(calls[c].n)
                 /\ calls'[c].resp.record = mapRequestFields(requests[i])]_vars

\* A 201 whose status is not the 'pending' the POST wrote.
C18_Witness ==
    \E c, d \in 1..Len(calls) :
        /\ calls[c].route = "POST /api/requests"
        /\ calls[c].resp.status = 201
        /\ calls[c].resp.record.status = S("completed")
        /\ calls[d].route = "PATCH /api/requests/:id"
        /\ calls[d].resp.status = 200

\* The call failed at the INSERT of a member.
FailedAtMember(call) ==
    /\ call.route = "POST /api/teams"
    /\ call.failed
    /\ call.issued[Len(call.issued)][1] = "member"

\* The member whose INSERT was the last statement the call sent.
LastMember(call) == call.issued[Len(call.issued)][2]

\* The staff ids of the stored members of a team, in the order of their inserts.
StoredMembers(teamId) ==
    LET rows == SelectSeq(team_members, LAMBDA m : m.team_id = teamId)
    IN [i \in 1..Len(rows) |-> rows[i].staff_id]

\* C19: when the insert of member k fails in POST /api/teams, the team row and
\* the member rows 1..k-1 stay stored, no later member is inserted, nothing is
\* rolled back or retried, and the response is 500.
C19_PartialTeam ==
    \A c \in 1..Len(calls) :
        FailedAtMember(calls[c]) =>
           /\ calls[c].resp.status = 500
           /\ calls[c].pc = "done"
           /\ \E t \in 1..Len(teams) : teams[t].id = calls[c].n
           /\ StoredMembers(calls[c].n) =
                 SubSeq(calls[c].body.members.items, 1, LastMember(calls[c]) - 1)
           /\ \A a, b \in 1..Len(calls[c].issued) :
                 a # b => calls[c].issued[a] # calls[c].issued[b]

\* The second member's insert failed: the team is stored with the first only.
C19_Witness ==
    \E c \in 1..Len(calls) :
        /\ FailedAtMember(calls[c])
        /\ LastMember(calls[c]) = 2
        /\ StoredMembers(calls[c].n) = <<N(7)>>
        /\ calls[c].resp.status = 500

\* What holds of a handler invocation at any time.
OneResponse(call) ==
    /\ call.responses <= 1
    /\ call.pc = "done" <=> call.responses = 1
    /\ call.failed => (call.pc = "done" /\ call.resp.status = 500)
    /\ \A a, b \in 1..Len(call.issued) : a # b => call.issued[a] # call.issued[b]

\* C20: a handler invocation ends with exactly one response; a storage failure
\* at any query yields 500, no later query of the invocation runs, and no query
\* is issued a second time.
C20_OneResponse ==
    [][\A c \in 1..Len(calls) :
          /\ OneResponse(calls'[c])
          /\ calls[c].pc = "done" => calls'[c] = calls[c]
          /\ (calls'[c].failed /\ ~calls[c].failed)
                => (calls'[c].resp.status = 500 /\ Len(calls'[c].issued) <= Len(calls[c].issued) + 1)]_vars

\* A create whose INSERT failed, after two queries that did not.
C20_Witness ==
    \E c \in 1..Len(calls) :
        /\ calls[c].route = "POST /api/requests"
        /\ calls[c].issued = <<<<"service", 0>>, <<"branch", 0>>, <<"insert", 0>>>>
        /\ calls[c].failed
        /\ calls[c].resp.status = 500
        /\ calls[c].responses = 1
        /\ requests = <<>>


\* A create whose branch, names, places and date are in order and whose
\* references exist: only the price is in question.
PriceOnly ==
    /\ Answered("POST /api/requests")
    /\ Truthy(EffectiveBranchId)
    /\ ~NoBranch(EffectiveBranchId)
    /\ ~NoServiceType(Get(req.body, "serviceTypeId"))
    /\ \A key \in RequiredBodyKeys \ {"price"} : Truthy(Get(req.body, key))

\* C21: a create treats price as missing only when it is absent or null: with
\* every other required field in order and the references in place, every
\* price that is present and not null, 0 included, is answered 201.
C21_PriceZeroAccepted ==
    (PriceOnly /\ ~Missing(Get(req.body, "price"))) => resp.status = 201

C21_Witness ==
    /\ PriceOnly
    /\ Get(req.body, "price") = N(0)
    /\ resp.status = 400
    /\ resp.message = "Missing required fields"
    /\ Unchanged


\* C22: after any interleaving of register calls, the branches table holds at
\* most one row for an email.
C22_OneRowPerEmail ==
    LET table == BranchTable(branches, registered) IN
    \A i, j \in 1..Len(table) : table[i].email = table[j].email => i = j

C22_Witness ==
    /\ Len(registered) = 2
    /\ registered[1].email = registered[2].email
    /\ \A c \in 1..Len(calls) :
          /\ calls[c].route = "POST /api/auth/register"
          /\ calls[c].resp.status = 201
          /\ ~calls[c].failed


\* The logins that have been answered, and what each was asked.
Logins == {c \in 1..Len(calls) : calls[c].route = "POST /api/auth/login" /\ calls[c].pc = "done"}
Username(c) == Get(calls[c].body, "username")
Password(c) == Get(calls[c].body, "password")
Named(c) == SelectByName(BranchTable(branches, registered), Username(c))
FirstNamed(c) == BranchTable(branches, registered)[CHOOSE i \in Named(c) : \A j \in Named(c) : i <= j]

\* A login is given a token only when a branch has the name and the password
\* compares equal against that branch, and the token carries that branch.
TokenOnlyForBranch(c) ==
    calls[c].resp.status = 200 =>
        /\ Named(c) # {}
        /\ Compare(Password(c), FirstNamed(c).password) = "true"
        /\ calls[c].resp.record.token =
              Jwt([k |-> "object", branchId |-> FirstNamed(c).id, name |-> FirstNamed(c).name,
                   role |-> FirstNamed(c).role, clientId |-> FirstNamed(c).client_id],
                  JWT_SECRET, Today + 1)

\* An unknown name and a wrong password are answered alike.
SameRefusal(c) ==
    (/\ Truthy(Username(c)) /\ Truthy(Password(c)) /\ ~calls[c].failed
     /\ \/ Named(c) = {}
        \/ Compare(Password(c), FirstNamed(c).password) = "false")
    => (calls[c].resp.status = 401 /\ calls[c].resp.message = "Invalid credentials")

\* A missing username or password is refused before any query.
RefusedUnqueried(c) ==
    (~Truthy(Username(c)) \/ ~Truthy(Password(c)))
    => (calls[c].resp.status = 400 /\ calls[c].issued = <<>>)

\* C24: login issues a token only when a branch with the given name exists and
\* the password compares equal against it, the token carrying that branch's
\* id, name, role and client id; an unknown name and a wrong password both get
\* 401 with the same message; a missing username or password gets 400 before
\* any query.
C24_Login ==
    \A c \in Logins : TokenOnlyForBranch(c) /\ SameRefusal(c) /\ RefusedUnqueried(c)

C24_Witness ==
    \E c \in Logins :
        /\ calls[c].v = "controller"
        /\ calls[c].body = [username |-> S("north")]
        /\ calls[c].issued = <<<<"find", 0>>>>
        /\ calls[c].resp.status = 500


\* The invocations of executeQuery that have returned or thrown.
Settled == {c \in 1..Len(calls) : calls[c].route = "executeQuery" /\ calls[c].pc = "settled"}
Holders(n) == {c \in 1..Len(calls) : calls[c].route = "executeQuery" /\ calls[c].connection = n}

\* C23: executeQuery leaves no connection open: end() has been awaited on
\* every connection it opened before it returns or throws, after a query that
\* succeeded as after one that failed; a failure of end() changes neither the
\* result returned nor the query error thrown; when opening the connection
\* fails, that error is thrown and nothing is ended.
C23_NoOpenConnection ==
    /\ \A c \in Settled :
          /\ calls[c].connection # 0 =>
                /\ connections[calls[c].connection].state # "open"
                /\ calls[c].ends = 1
                /\ calls[c].settled \in {Results(calls[c].query), Error("execute")}
                /\ calls[c].settled = calls[c].completion
          /\ calls[c].connection = 0 =>
                /\ calls[c].ends = 0
                /\ calls[c].settled \in {Error("environment"), Error("connect")}
                /\ calls[c].env => calls[c].settled = Error("connect")
    /\ \A n \in 1..Len(connections) :
          /\ Cardinality(Holders(n)) = 1
          /\ connections[n].state # "open" => Holders(n) \subseteq Settled

C23_Witness ==
    \E c, d \in Settled :
        /\ calls[c].settled = Results(calls[c].query)
        /\ connections[calls[c].connection].state = "end failed"
        /\ calls[d].settled = Error("execute")
        /\ connections[calls[d].connection].state = "end failed"


\* The branchId values a caller may put in the body, none included.
BodyBranchIds == {Undefined, N(1), N(2), N(9)}

\* C25: behind the gate, the branch of a created request is the principal's
\* branchId: whatever branchId the body carries, the answer has the same status
\* and the row stored is the same, so no body makes the request another
\* branch's.
C25_PrincipalBranch ==
    (Answered("POST /api/requests") /\ req.v # "server" /\ Truthy(resp.user.branchId)) =>
        /\ \A x \in BodyBranchIds, y \in {Undefined, S("south")}, tick \in {0, 1} :
              createRequest(resp.user, With(With(req.body, "branchId", x), "branchName", y),
                            pre.requests, pre.branches, tick).resp.status = resp.status
        /\ resp.status = 201 =>
              /\ requests[Len(requests)].branch_id = resp.user.branchId
              /\ resp.record.branchId = resp.user.branchId
              /\ \A x \in BodyBranchIds :
                    requests[Len(requests)] =
                       InsertedRow(Len(requests), resp.user, With(req.body, "branchId", x),
                                   requests[Len(requests)].created_at.n)

C25_Witness ==
    /\ Answered("POST /api/requests")
    /\ req.v = "api"
    /\ req.header = Bearer(1)
    /\ Get(req.body, "branchId") = N(9)
    /\ resp.status = 201
    /\ requests[Len(requests)].branch_id = N(1)


\* C26: a PATCH of an existing request with a team_id T whose team does not
\* exist, or has no crew commander, still writes team_id = T and leaves the
\* request's staff_id as it was.
C26_TeamWithoutCommander ==
    (/\ Answered("PATCH /api/requests/:id")
     /\ Get(req.body, "team_id").k = "number"
     /\ Get(req.body, "staff_id").k = "undefined"
     /\ CommandedTeams = {})
    => \A i \in Addressed :
          /\ requests[i].team_id = Get(req.body, "team_id")
          /\ requests[i].staff_id = pre.requests[i].staff_id

C26_Witness ==
    /\ Answered("PATCH /api/requests/:id")
    /\ req.v = "server"
    /\ req.body = [team_id |-> N(3)]
    /\ resp.status = 200
    /\ \E i \in Addressed :
          /\ pre.requests[i].team_id = N(1)
          /\ requests[i].team_id = N(3)
          /\ requests[i].staff_id = N(7)


\* The PATCH whose UPDATE this step runs, and the row it addresses.
Updates(c) ==
    /\ calls[c].route = "PATCH /api/requests/:id"
    /\ calls[c].pc = "update"
    /\ calls'[c].pc = "select"
Set(c) == DbUpdates(calls[c].v, calls[c].body)

\* C27: each UPDATE of a PATCH writes its own columns and keeps every other
\* column of the row, so two PATCHes of disjoint fields leave both updates in
\* the row whatever the order of their steps, on a common field the UPDATE
\* that ran last stands, and a PATCH applied a second time changes nothing;
\* the other steps of a PATCH write nothing.
C27_PatchesCommute ==
    [][/\ \A c \in 1..Len(calls) :
             Updates(c) =>
                \A i \in SelectRequest(requests, calls[c].id) :
                    /\ \A col \in DOMAIN Set(c) :
                          requests'[i][col] = ColumnValue(col, Set(c)[col])
                    /\ \A col \in DOMAIN requests[i] \ DOMAIN Set(c) :
                          requests'[i][col] = requests[i][col]
                    /\ (\A col \in DOMAIN Set(c) : requests[i][col] = ColumnValue(col, Set(c)[col]))
                          => requests' = requests
       /\ (\A c \in 1..Len(calls) : ~Updates(c)) => requests' = requests]_vars

\* Two PATCHes of disjoint fields, the second UPDATE between the first one's
\* UPDATE and its read-back: the row holds both.
C27_Witness ==
    \E c, d \in 1..Len(calls) :
        /\ calls[c].body = [team_id |-> N(1)]
        /\ calls[d].body = [status |-> S("completed")]
        /\ calls[c].resp.status = 200
        /\ calls[d].resp.status = 200
        /\ calls[c].resp.record.status = S("completed")
        /\ requests[1].status = S("completed")
        /\ requests[1].team_id = N(1)
        /\ requests[1].staff_id = N(7)


\* The calls of the SOS route that went past the gate.
SosHandled ==
    {c \in 1..Len(calls) : calls[c].route = "PATCH /api/sos/:id/status" /\ calls[c].resp.ran}

\* C28: PATCH /api/sos/:id/status writes a status only when it is pending,
\* in_progress or resolved: any other value, or none, is answered 400 with no
\* statement sent, and every SOS row keeps a status of the list.
C28_SosStatus ==
    /\ \A i \in 1..Len(sos) : sos[i].status.k = "string" /\ sos[i].status.s \in validStatuses
    /\ \A c \in SosHandled :
          Get(calls[c].body, "status") \notin {S("pending"), S("in_progress"), S("resolved")}
             => (calls[c].resp.status = 400 /\ calls[c].issued = <<>>)
    /\ \A i \in 1..Len(sos) :
          sos[i].status # SosRows[i].status
             => \E c \in 1..Len(calls) :
                   /\ calls[c].route = "PATCH /api/sos/:id/status"
                   /\ Get(calls[c].body, "status") = sos[i].status
                   /\ <<"update", 0>> \in {calls[c].issued[n] : n \in 1..Len(calls[c].issued)}

C28_Witness ==
    /\ sos[1].status = S("resolved")
    /\ \E c \in SosHandled :
          /\ calls[c].body = [status |-> S("closed")]
          /\ calls[c].id = S("1")
          /\ calls[c].resp.status = 400
    /\ \E c \in SosHandled :
          /\ calls[c].body = [status |-> S("resolved")]
          /\ calls[c].resp.status = 200
          /\ calls[c].resp.record.status = S("resolved")


NonNegativePrices ==
    \A i \in 1..Len(requests) : requests[i].price.k = "number" /\ requests[i].price.n >= 0

\* C29: in every row of the summaries, totalRuns >= 1 and
\* 0 <= totalRunsCompleted <= totalRuns, and when no price is negative
\* 0 <= totalAmountCompleted <= totalAmount; no two rows have the same date
\* and the rows are in descending order of date.
C29_SummaryRows ==
    Answered("GET /api/runs/summaries") =>
        /\ \A a \in 1..Len(resp.rows) :
              /\ resp.rows[a].totalRuns >= 1
              /\ 0 <= resp.rows[a].totalRunsCompleted
              /\ resp.rows[a].totalRunsCompleted <= resp.rows[a].totalRuns
              /\ NonNegativePrices =>
                    /\ 0 <= resp.rows[a].totalAmountCompleted
                    /\ resp.rows[a].totalAmountCompleted <= resp.rows[a].totalAmount
        /\ \A a, b \in 1..Len(resp.rows) : a < b => resp.rows[a].date > resp.rows[b].date

C29_Witness ==
    /\ Answered("GET /api/runs/summaries")
    /\ Len(resp.rows) = 2
    /\ resp.rows[1].date = Today
    /\ resp.rows[2].date < Today
    /\ resp.rows[2].totalRunsCompleted = 1
    /\ resp.rows[2].totalAmountCompleted = resp.rows[2].totalAmount
    /\ resp.rows[1].totalRunsCompleted = 0
    /\ resp.rows[1].totalAmount > 0

====
